---- MODULE Spec2Model ----
(***************************************************************************)
(* docmanBot: the file-backed document record store, the notification     *)
(* queue, the conversation registry and the handlers that use them.       *)
(*                                                                         *)
(* JavaScript objects are functions from the keys that are present to      *)
(* their values; a key that is absent reads as UNDEF.  A persisted file is *)
(* a record naming what a read of it yields: it is missing, it does not    *)
(* parse, or it parses to a JSON value.                                    *)
(***************************************************************************)
EXTENDS Integers, Sequences, FiniteSets, TLC

VARIABLES
    notifFile,      \* data/pendingNotifications.json
    docFiles,       \* approvalDocuments.json at each location the store probes
    cwdIsRepoRoot,  \* deployment layout: process.cwd() is the repository root
    registry,       \* data/conversationRegistry.json
    welcomed,       \* storage keys welcomeShown:<conversationId> that are set
    lookups,        \* detached Graph email lookups that have not run yet
    loading,        \* the card-submit invocation of runWithLoading, at its await points
    now,            \* the clock read by Date.now() / new Date()
    calls,          \* calls of the queue and the store that have read and not yet written
    last            \* the last call or handler run: what it was given and returned

vars == <<notifFile, docFiles, cwdIsRepoRoot, registry, welcomed, lookups, loading, now, calls, last>>

\* ---------------------------------------------------------------- bounds

MaxQueue == 2       \* enqueue is explored while the queue holds fewer entries
MaxClock == 2       \* the clock stops advancing here
MaxDocs == 2        \* addDocument is explored while the cwd file holds fewer records

\* ------------------------------------------------------- JavaScript values

UNDEF == "undefined"

EmptyObj == [k \in {} |-> UNDEF]

Get(o, k) == IF k \in DOMAIN o THEN o[k] ELSE UNDEF

\* a truthy string: neither undefined nor ""
Truthy(s) == s # UNDEF /\ s # ""

\* a || b
OrElse(a, b) == IF Truthy(a) THEN a ELSE b

\* a ?? b
Nullish(a, b) == IF a # UNDEF THEN a ELSE b

\* no card submit is being handled
NoInvocation ==
    [ pc |-> "idle", ctx |-> EmptyObj, targetId |-> UNDEF, placeholderId |-> UNDEF,
      loadingActivity |-> EmptyObj,
      didUpdate |-> FALSE, finalActivity |-> EmptyObj, timer |-> FALSE, typing |-> 0,
      escaped |-> "none", trace |-> <<>> ]

\* { ...o, ...p }
Spread(o, p) == [k \in DOMAIN o \cup DOMAIN p |-> IF k \in DOMAIN p THEN p[k] ELSE o[k]]

\* JSON.parse(JSON.stringify(o)) of a flat object: undefined properties are dropped
JsonObj(o) == [k \in {j \in DOMAIN o : o[j] # UNDEF} |-> o[k]]

\* String.prototype.toLowerCase over the strings of the model
ToLowerCase(s) ==
    CASE s = "A@B" -> "a@b"
      [] s = "U1" -> "u1"
      [] s = " U1 " -> " u1 "
      [] s = "Sam <A@B>" -> "sam <a@b>"
      [] s = "Sam" -> "sam"
      [] s = "Hello!" -> "hello!"
      [] s = "U2" -> "u2"
      [] s = "U9" -> "u9"
      [] s = "Change x" -> "change x"
      [] OTHER -> s

\* String.prototype.trim over the strings of the model
Trim(s) ==
    CASE s = " U1 " -> "U1"
      [] s = " u1 " -> "u1"
      [] s = " " -> ""
      [] s = " A@B " -> "A@B"
      [] s = " Hello! " -> "Hello!"
      [] OTHER -> s

\* s.match(/[^\s()<>]+@[^\s()<>]+/)?.[0] over the strings of the model
EmailMatch(s) ==
    CASE s = "Sam <A@B>" -> "A@B"
      [] s = "A@B" -> "A@B"
      [] s = " A@B " -> "A@B"
      [] s = "a@b" -> "a@b"
      [] s = "c@d" -> "c@d"
      [] OTHER -> UNDEF

\* null and undefined are told apart by no caller: both read as UNDEF
tryExtractEmail(input) ==
    LET s == Nullish(input, "")
        m == EmailMatch(s)
    IN  IF m = UNDEF THEN UNDEF ELSE OrElse(ToLowerCase(Trim(m)), UNDEF)

Min(a, b) == IF a < b THEN a ELSE b

\* ------------------------------------------------------------ file system

\* what writeFile(p, data) can do: succeed, fail before the file is opened
\* (the file is as it was), or fail after it was truncated (a partial write)
WriteOutcomes == {"ok", "failKeep", "failTrunc"}

\* ------------------------------------------------------ notification queue

NotificationCap == 25

\* pendingNotifications.json: kind "list" holds { notifications: [...] };
\* kind "other" parses but has no notifications array
NotifMissing == [kind |-> "missing", list |-> <<>>]
NotifCorrupt == [kind |-> "corrupt", list |-> <<>>]
NotifOther == [kind |-> "other", list |-> <<>>]
NotifList(l) == [kind |-> "list", list |-> l]

\* the result of writeFile on the notification file
WriteNotif(old, list, outcome) ==
    CASE outcome = "ok" -> NotifList(list)
      [] outcome = "failKeep" -> old
      [] OTHER -> NotifCorrupt

\* the optional parameter target of enqueue: given or not
NoTargetArg == [given |-> FALSE, obj |-> EmptyObj]
TargetArg(o) == [given |-> TRUE, obj |-> o]

\* target?.k
OptGet(target, k) == IF target.given THEN Get(target.obj, k) ELSE UNDEF

\* target?.aadObjectId?.trim()
OptTrim(s) == IF s = UNDEF THEN UNDEF ELSE Trim(s)

NotificationEntry(doc, target, t) ==
    LET derivedEmail ==
            OrElse(OptGet(target, "email"),
            OrElse(tryExtractEmail(Get(doc, "ResponsiblePerson")),
            OrElse(tryExtractEmail(Get(doc, "ModifiedBy")),
            OrElse(tryExtractEmail(Get(doc, "CreatedBy")),
                   tryExtractEmail(Get(doc, "OriginalCreator"))))))
    IN  [ id |-> "N-" \o ToString(t),
          createdAt |-> ToString(t),
          target |-> JsonObj([ aadObjectId |-> OrElse(OptTrim(OptGet(target, "aadObjectId")), UNDEF),
                               email |-> OrElse(derivedEmail, UNDEF) ]),
          doc |-> JsonObj([ id |-> Get(doc, "id"),
                            Title |-> Get(doc, "Title"),
                            DocumentNo |-> Get(doc, "DocumentNo"),
                            DocumentClass |-> Get(doc, "DocumentClass"),
                            DocumentRevision |-> Get(doc, "DocumentRevision"),
                            OriginalFileName |-> Get(doc, "OriginalFileName"),
                            docType |-> Get(doc, "docType") ]) ]

\* enqueueNewDocumentNotification without the slice to the cap
enqueueKeepingAll(file, doc, target, t, outcome) ==
    LET current == IF file.kind = "list" THEN file.list ELSE <<>>
        n == NotificationEntry(doc, target, t)
    IN  [ file |-> WriteNotif(file, <<n>> \o current, outcome),
          threw |-> outcome # "ok",
          entry |-> n ]

\* enqueueNewDocumentNotification: the file it leaves and whether it threw
enqueueNewDocumentNotification(file, doc, target, t, outcome) ==
    LET current == IF file.kind = "list" THEN file.list ELSE <<>>
        n == NotificationEntry(doc, target, t)
        unshifted == <<n>> \o current
        sliced == SubSeq(unshifted, 1, Min(NotificationCap, Len(unshifted)))
    IN  [ file |-> WriteNotif(file, sliced, outcome),
          threw |-> outcome # "ok",
          entry |-> n ]

\* matchesTarget comparing the emails as they are written
matchesTargetCaseSensitive(n, user) ==
    IF "target" \notin DOMAIN n THEN TRUE
    ELSE LET t == n.target IN
         IF Truthy(Get(t, "aadObjectId")) /\ Truthy(Get(user, "aadObjectId"))
         THEN ToLowerCase(t.aadObjectId) = ToLowerCase(user.aadObjectId)
         ELSE IF Truthy(Get(t, "email")) /\ Truthy(Get(user, "email"))
         THEN t.email = user.email
         ELSE FALSE

\* matchesTarget falling back to the emails when the directory ids differ
matchesTargetEmailFallback(n, user) ==
    IF "target" \notin DOMAIN n THEN TRUE
    ELSE LET t == n.target IN
         IF /\ Truthy(Get(t, "aadObjectId")) /\ Truthy(Get(user, "aadObjectId"))
            /\ ToLowerCase(t.aadObjectId) = ToLowerCase(user.aadObjectId)
         THEN TRUE
         ELSE IF Truthy(Get(t, "email")) /\ Truthy(Get(user, "email"))
         THEN ToLowerCase(t.email) = ToLowerCase(user.email)
         ELSE FALSE

matchesTarget(n, user) ==
    IF "target" \notin DOMAIN n THEN TRUE
    ELSE LET t == n.target IN
         IF Truthy(Get(t, "aadObjectId")) /\ Truthy(Get(user, "aadObjectId"))
         THEN ToLowerCase(t.aadObjectId) = ToLowerCase(user.aadObjectId)
         ELSE IF Truthy(Get(t, "email")) /\ Truthy(Get(user, "email"))
         THEN ToLowerCase(t.email) = ToLowerCase(user.email)
         ELSE FALSE

Matching(list, user) == SelectSeq(list, LAMBDA n : matchesTarget(n, user))
NotMatching(list, user) == SelectSeq(list, LAMBDA n : ~matchesTarget(n, user))

\* a drain that returns the matching entries and writes the whole list back
drainKeepingAll(file, user, outcome) ==
    IF file.kind \in {"missing", "corrupt"}
    THEN [file |-> file, ret |-> <<>>, fault |-> FALSE]
    ELSE LET list == IF file.kind = "list" THEN file.list ELSE <<>>
         IN  IF outcome = "ok"
             THEN [file |-> NotifList(list), ret |-> Matching(list, user), fault |-> FALSE]
             ELSE [file |-> WriteNotif(file, list, outcome), ret |-> <<>>, fault |-> TRUE]

\* a drain that returns the matching entries and empties the queue
drainDroppingRest(file, user, outcome) ==
    IF file.kind \in {"missing", "corrupt"}
    THEN [file |-> file, ret |-> <<>>, fault |-> FALSE]
    ELSE LET list == IF file.kind = "list" THEN file.list ELSE <<>>
         IN  IF outcome = "ok"
             THEN [file |-> NotifList(<<>>), ret |-> Matching(list, user), fault |-> FALSE]
             ELSE [file |-> WriteNotif(file, <<>>, outcome), ret |-> <<>>, fault |-> TRUE]

\* drainNotificationsForUser that lets the failure of its read out
drainRaisingOnUnreadable(file, user, outcome) ==
    IF file.kind \in {"missing", "corrupt"}
    THEN [file |-> file, ret |-> <<>>, fault |-> TRUE]
    ELSE LET list == IF file.kind = "list" THEN file.list ELSE <<>>
             deliver == Matching(list, user)
             keep == NotMatching(list, user)
         IN  IF outcome = "ok"
             THEN [file |-> NotifList(keep), ret |-> deliver, fault |-> FALSE]
             ELSE [file |-> WriteNotif(file, keep, outcome), ret |-> <<>>, fault |-> TRUE]

\* drainNotificationsForUser: the file it leaves, what it returns, and whether
\* the catch ran on a failed write
drainNotificationsForUser(file, user, outcome) ==
    IF file.kind \in {"missing", "corrupt"}
    THEN [file |-> file, ret |-> <<>>, fault |-> FALSE]
    ELSE LET list == IF file.kind = "list" THEN file.list ELSE <<>>
             deliver == Matching(list, user)
             keep == NotMatching(list, user)
         IN  IF outcome = "ok"
             THEN [file |-> NotifList(keep), ret |-> deliver, fault |-> FALSE]
             ELSE [file |-> WriteNotif(file, keep, outcome), ret |-> <<>>, fault |-> TRUE]

\* --------------------------------------------------------- document store

\* approvalDocuments.json: kind "json" holds an object whose keys among
\* documents / pending are arrays; kind "null" parses to a falsy value
DocsMissing == [kind |-> "missing", obj |-> EmptyObj]
DocsCorrupt == [kind |-> "corrupt", obj |-> EmptyObj]
DocsNull == [kind |-> "null", obj |-> EmptyObj]
DocsJson(o) == [kind |-> "json", obj |-> o]

\* String(name).toLowerCase().endsWith(ext) for the known extensions, over the
\* lower-cased names of the model
DocTypeOfLowerName(n) ==
    CASE n = "docs/spec.txt" -> "TXT"
      [] n = "spec.txt" -> "TXT"
      [] n = "spec.pdf" -> "PDF"
      [] n = "legacy.docx" -> "DOCX"
      [] OTHER -> UNDEF

\* toLowerCase over the file names of the model
LowerName(n) == IF n = "Spec.PDF" THEN "spec.pdf" ELSE n

\* path.basename over the paths of the model
Basename(p) ==
    CASE p = "docs/spec.txt" -> "spec.txt"
      [] p = "docs/a.bin" -> "a.bin"
      [] OTHER -> p

\* documentApi.ts
inferDocTypeFromName(name) == DocTypeOfLowerName(LowerName(OrElse(name, "")))

\* documentStore.ts
inferDocType(doc) ==
    DocTypeOfLowerName(LowerName(
        OrElse(Get(doc, "localPath"),
        OrElse(Get(doc, "OriginalFileName"),
        OrElse(Get(doc, "fileName"), "")))))

normalizeDoc(doc) ==
    LET docType == Nullish(Get(doc, "docType"), inferDocType(doc))
        Title == Nullish(Get(doc, "Title"),
                 Nullish(Get(doc, "title"),
                 Nullish(Get(doc, "OriginalFileName"),
                 Nullish(Get(doc, "fileName"), Get(doc, "id")))))
    IN  Spread(doc,
          [ docType |-> docType,
            state |-> Nullish(Get(doc, "state"), "pendingApproval"),
            Title |-> Title,
            DocumentNo |-> Nullish(Get(doc, "DocumentNo"), Get(doc, "docNo")),
            DocumentClass |-> Nullish(Get(doc, "DocumentClass"), Get(doc, "docClass")),
            DocumentSheet |-> Nullish(Get(doc, "DocumentSheet"), Get(doc, "docSheet")),
            DocumentRevision |-> Nullish(Get(doc, "DocumentRevision"), Get(doc, "docRev")),
            OriginalFileName |-> Nullish(Get(doc, "OriginalFileName"), Get(doc, "fileName")),
            OriginalFileType |-> Nullish(Get(doc, "OriginalFileType"), docType) ])

\* docs.map(normalizeDoc)
NormalizeAll(docs) == [i \in 1..Len(docs) |-> normalizeDoc(docs[i])]

\* JSON.stringify of an array of records
JsonDocs(docs) == [i \in 1..Len(docs) |-> JsonObj(docs[i])]

getCandidatePaths ==
    IF cwdIsRepoRoot THEN <<"cwd", "cwd", "lib">> ELSE <<"cwd", "repo", "lib">>

RECURSIVE getAllFrom(_, _, _)
getAllFrom(files, candidates, i) ==
    IF i > Len(candidates) THEN <<>>
    ELSE LET f == files[candidates[i]] IN
         IF f.kind \in {"missing", "corrupt"} THEN getAllFrom(files, candidates, i + 1)
         ELSE IF f.kind = "null" THEN <<>>
         ELSE IF "documents" \in DOMAIN f.obj THEN NormalizeAll(f.obj.documents)
         ELSE IF "pending" \in DOMAIN f.obj THEN NormalizeAll(f.obj.pending)
         ELSE <<>>

getAllDocuments(files) == getAllFrom(files, getCandidatePaths, 1)

RECURSIVE resolveFrom(_, _, _)
resolveFrom(files, candidates, i) ==
    IF i > Len(candidates) THEN candidates[1]
    ELSE IF files[candidates[i]].kind = "json" THEN candidates[i]
    ELSE resolveFrom(files, candidates, i + 1)

resolveDocumentsFilePath(files) == resolveFrom(files, getCandidatePaths, 1)

\* docs.findIndex((d) => d.id === id), 0 for -1
FindIndex(docs, id) ==
    IF \E i \in 1..Len(docs) : Get(docs[i], "id") = id
    THEN CHOOSE i \in 1..Len(docs) :
            /\ Get(docs[i], "id") = id
            /\ \A j \in 1..(i - 1) : Get(docs[j], "id") # id
    ELSE 0

\* the result of writeFile on a documents file
WriteDocs(old, docs, outcome) ==
    CASE outcome = "ok" -> DocsJson([documents |-> JsonDocs(docs)])
      [] outcome = "failKeep" -> old
      [] OTHER -> DocsCorrupt

\* setDocumentState refusing a record that is no longer pending
setDocumentStateFromPendingOnly(files, id, state, outcome) ==
    IF ~Truthy(id) THEN [files |-> files, ret |-> FALSE, wrote |-> FALSE]
    ELSE LET filePath == resolveDocumentsFilePath(files)
             docs == getAllDocuments(files)
             idx == FindIndex(docs, id)
         IN  IF idx = 0 \/ docs[idx].state \in {"approved", "rejected"}
             THEN [files |-> files, ret |-> FALSE, wrote |-> FALSE]
             ELSE LET next == [docs EXCEPT ![idx] = Spread(docs[idx], [state |-> state])]
                  IN  [ files |-> [files EXCEPT ![filePath] = WriteDocs(files[filePath], next, outcome)],
                        ret |-> outcome = "ok",
                        wrote |-> TRUE ]

\* setDocumentState returning false when the record already has the state
setDocumentStateSkipsUnchanged(files, id, state, outcome) ==
    IF ~Truthy(id) THEN [files |-> files, ret |-> FALSE, wrote |-> FALSE]
    ELSE LET filePath == resolveDocumentsFilePath(files)
             docs == getAllDocuments(files)
             idx == FindIndex(docs, id)
         IN  IF idx = 0 \/ docs[idx].state = state
             THEN [files |-> files, ret |-> FALSE, wrote |-> FALSE]
             ELSE LET next == [docs EXCEPT ![idx] = Spread(docs[idx], [state |-> state])]
                  IN  [ files |-> [files EXCEPT ![filePath] = WriteDocs(files[filePath], next, outcome)],
                        ret |-> outcome = "ok",
                        wrote |-> TRUE ]

\* setDocumentState with the write's failure swallowed
setDocumentStateIgnoresWriteError(files, id, state, outcome) ==
    IF ~Truthy(id) THEN [files |-> files, ret |-> FALSE, wrote |-> FALSE]
    ELSE LET filePath == resolveDocumentsFilePath(files)
             docs == getAllDocuments(files)
             idx == FindIndex(docs, id)
         IN  IF idx = 0 THEN [files |-> files, ret |-> FALSE, wrote |-> FALSE]
             ELSE LET next == [docs EXCEPT ![idx] = Spread(docs[idx], [state |-> state])]
                  IN  [ files |-> [files EXCEPT ![filePath] = WriteDocs(files[filePath], next, outcome)],
                        ret |-> TRUE,
                        wrote |-> TRUE ]

\* setDocumentState: the files it leaves and what it returns
setDocumentState(files, id, state, outcome) ==
    IF ~Truthy(id) THEN [files |-> files, ret |-> FALSE, wrote |-> FALSE]
    ELSE LET filePath == resolveDocumentsFilePath(files)
             docs == getAllDocuments(files)
             idx == FindIndex(docs, id)
         IN  IF idx = 0 THEN [files |-> files, ret |-> FALSE, wrote |-> FALSE]
             ELSE LET next == [docs EXCEPT ![idx] = Spread(docs[idx], [state |-> state])]
                  IN  [ files |-> [files EXCEPT ![filePath] = WriteDocs(files[filePath], next, outcome)],
                        ret |-> outcome = "ok",
                        wrote |-> TRUE ]

\* getPendingApprovalDocuments without the legacy spelling
getPendingApprovalDocumentsStrict(files) ==
    SelectSeq(getAllDocuments(files),
              LAMBDA d : Nullish(Get(d, "state"), "pendingApproval") = "pendingApproval")

getPendingApprovalDocuments(files) ==
    SelectSeq(getAllDocuments(files),
              LAMBDA d : Nullish(Get(d, "state"), "pendingApproval") \in {"pendingApproval", "pendigApprovel"})

\* getPendingApprovalDocumentById; EmptyObj for null
getPendingApprovalDocumentById(files, id) ==
    LET docs == getAllDocuments(files)
        idx == FindIndex(docs, id)
    IN  IF ~Truthy(id) \/ idx = 0 THEN EmptyObj ELSE docs[idx]

\* ------------------------------------------------------------ documentApi

MaxIdNumber == 1010   \* ids are parsed while their number is at most this

\* the strings /^DOC-(\d+)$/i accepts, with the number each one holds
DocIdStrings ==
    { <<p \o z \o ToString(n), n>> :
        p \in {"DOC-", "doc-"}, z \in {"", "0", "00"}, n \in 0..MaxIdNumber }

DocIdTable == [s \in {x[1] : x \in DocIdStrings} |->
                 CHOOSE n \in 0..MaxIdNumber : <<s, n>> \in DocIdStrings]

\* Number(String(id).match(/^DOC-(\d+)$/i)?.[1]), -1 when the id does not match
DocIdNumber(id) == IF id \in DOMAIN DocIdTable THEN DocIdTable[id] ELSE -1

\* String(n).padStart(3, "0")
PadStart3(s) ==
    CASE Len(s) = 1 -> "00" \o s
      [] Len(s) = 2 -> "0" \o s
      [] OTHER -> s

MaxOf(S) == CHOOSE m \in S : \A x \in S : x <= m

nextId(existing) ==
    LET nums == {DocIdNumber(Get(existing[i], "id")) : i \in 1..Len(existing)} \ {-1}
        max == IF nums # {} THEN MaxOf(nums) ELSE 0
    IN  "DOC-" \o PadStart3(ToString(max + 1))

readDocumentsFile(f) ==
    IF f.kind = "json" /\ "documents" \in DOMAIN f.obj THEN f.obj.documents ELSE <<>>

NewDocument(input, id, nowIso) ==
    LET fileName == OrElse(Get(input, "OriginalFileName"), Basename(input.localPath))
        docType == OrElse(Get(input, "docType"),
                   OrElse(inferDocTypeFromName(fileName), inferDocTypeFromName(input.localPath)))
    IN  [ id |-> id,
          state |-> "pendingApproval",
          localPath |-> input.localPath,
          docType |-> docType,
          Title |-> Get(input, "Title"),
          DocumentNo |-> Nullish(Get(input, "DocumentNo"), ""),
          DocumentClass |-> Nullish(Get(input, "DocumentClass"), ""),
          Format |-> Nullish(Get(input, "Format"), "*"),
          DocumentSheet |-> Nullish(Get(input, "DocumentSheet"), "1"),
          DocumentRevision |-> Nullish(Get(input, "DocumentRevision"), ""),
          OriginalFileType |-> Nullish(Get(input, "OriginalFileType"), Nullish(docType, "")),
          DocumentStatus |-> Nullish(Get(input, "DocumentStatus"), "Preliminary"),
          FileStatus |-> Nullish(Get(input, "FileStatus"), "Checked In"),
          Language |-> Nullish(Get(input, "Language"), "en"),
          ResponsiblePerson |-> Nullish(Get(input, "ResponsiblePerson"), ""),
          ModifiedBy |-> Nullish(Get(input, "ModifiedBy"), ""),
          CreatedBy |-> Nullish(Get(input, "CreatedBy"), ""),
          OriginalCreator |-> Nullish(Get(input, "OriginalCreator"), ""),
          DateCreated |-> Nullish(Get(input, "DateCreated"), nowIso),
          Modified |-> Nullish(Get(input, "Modified"), nowIso),
          CheckedOutBy |-> Nullish(Get(input, "CheckedOutBy"), ""),
          DocumentType |-> Nullish(Get(input, "DocumentType"), "ORIGINAL"),
          OriginalFileName |-> fileName ]

\* addDocumentToApprovalList: the files it leaves, the record it returns and
\* whether writeDocumentsFile threw
addDocumentToApprovalList(files, input, t, outcome) ==
    LET store == readDocumentsFile(files["cwd"])
        doc == NewDocument(input, nextId(store), "T" \o ToString(t))
    IN  [ files |-> [files EXCEPT !["cwd"] = WriteDocs(files["cwd"], Append(store, doc), outcome)],
          doc |-> doc,
          threw |-> outcome # "ok" ]

\* ------------------------------------------------------------- the inputs

\* what a documents-API caller can post
AddInputs ==
    { [localPath |-> "docs/spec.txt", Title |-> "Spec v2"],
      [localPath |-> "docs/a.bin", Title |-> "Blob", OriginalFileName |-> "Spec.PDF",
       ResponsiblePerson |-> "Sam <A@B>"] }

\* records as addDocument returns them, for direct calls of enqueue
EnqueueDocs == { NewDocument(input, "DOC-001", "T0") : input \in AddInputs }

EnqueueTargets ==
    { NoTargetArg,
      TargetArg(EmptyObj),
      TargetArg([email |-> "A@B"]),
      TargetArg([aadObjectId |-> " U1 "]),
      TargetArg([aadObjectId |-> "u2", email |-> "c@d"]) }

\* the identities drainFor is called with
Requesters ==
    { EmptyObj,
      [aadObjectId |-> "u1"],
      [email |-> "a@b"],
      [email |-> "c@d"],
      [aadObjectId |-> "u1", email |-> "c@d"],
      [aadObjectId |-> "U2", email |-> "a@b"] }

\* entries found in the file at start: one written without a target, one
\* written by enqueue for an email
SeedBroadcast == [id |-> "N-0", createdAt |-> "0", doc |-> [id |-> "DOC-001", Title |-> "Spec v2"]]
SeedForCD ==
    [id |-> "N-0", createdAt |-> "0", target |-> [email |-> "c@d"],
     doc |-> [id |-> "DOC-001", Title |-> "Spec v2"]]

\* Date.now(): the clock does not go back
ClockReads == {now, Min(now + 1, MaxClock)}

\* no call is between its read and its write
NoCalls == <<>>

NoCall == [op |-> "none", arg |-> EmptyObj, ret |-> <<>>, fault |-> FALSE, rep |-> FALSE, prevRet |-> <<>>]

EmptyRegistry == [byAadObjectId |-> EmptyObj, byEmail |-> EmptyObj]

NoDocFiles == [p \in {"cwd", "repo", "lib"} |-> DocsMissing]

\* ------------------------------------------ the queue, called on its own

InitQueue ==
    /\ notifFile \in { NotifMissing, NotifCorrupt, NotifOther, NotifList(<<>>),
                       NotifList(<<SeedBroadcast>>), NotifList(<<SeedForCD, SeedBroadcast>>) }
    /\ docFiles = NoDocFiles
    /\ cwdIsRepoRoot = TRUE
    /\ registry = EmptyRegistry
    /\ welcomed = {}
    /\ lookups = {}
    /\ loading = NoInvocation
    /\ calls = NoCalls
    /\ now = 1
    /\ last = NoCall

Enqueue ==
    \E doc \in EnqueueDocs, target \in EnqueueTargets, t \in ClockReads, outcome \in WriteOutcomes :
        /\ Len(notifFile.list) < MaxQueue
        /\ \E r \in {enqueueNewDocumentNotification(notifFile, doc, target, t, outcome)} :
           /\ notifFile' = r.file
           /\ now' = t
           /\ last' = [ op |-> "enqueue", arg |-> [doc |-> doc, target |-> target],
                        ret |-> r.entry, fault |-> r.threw, rep |-> FALSE, prevRet |-> <<>> ]
        /\ UNCHANGED <<docFiles, cwdIsRepoRoot, registry, welcomed, lookups, loading, calls>>

Drain ==
    \E user \in Requesters :
      \E outcome \in (IF notifFile.kind \in {"missing", "corrupt"} THEN {"ok"} ELSE WriteOutcomes) :
        /\ \E r \in {drainNotificationsForUser(notifFile, user, outcome)},
              again \in {last.op = "drain" /\ last.arg = user /\ ~last.fault} :
           /\ notifFile' = r.file
           /\ last' = [ op |-> "drain", arg |-> user, ret |-> r.ret, fault |-> r.fault,
                        rep |-> again, prevRet |-> IF again THEN last.ret ELSE <<>> ]
        /\ UNCHANGED <<docFiles, cwdIsRepoRoot, registry, welcomed, lookups, loading, now, calls>>

NextQueue == Enqueue \/ Drain

SpecQueue == InitQueue /\ [][NextQueue]_vars

\* ------------------------------------------ the queue, at its cap

\* an entry enqueued long ago: most are for a user who never asks, some for c@d
OldEntry(i) ==
    [ id |-> "N-old" \o ToString(i), createdAt |-> "0",
      target |-> IF i % 8 = 0 THEN [email |-> "c@d"] ELSE [aadObjectId |-> "u9"],
      doc |-> [id |-> "DOC-001", Title |-> "Spec v2"] ]

IsOldEntry(n) == n.createdAt = "0"

\* the file after n enqueues long ago, the latest first
OldQueue(n) == [i \in 1..n |-> OldEntry(n + 1 - i)]

InitCap ==
    /\ notifFile \in {NotifList(OldQueue(n)) : n \in {NotificationCap - 1, NotificationCap}}
    /\ docFiles = NoDocFiles
    /\ cwdIsRepoRoot = TRUE
    /\ registry = EmptyRegistry
    /\ welcomed = {}
    /\ lookups = {}
    /\ loading = NoInvocation
    /\ calls = NoCalls
    /\ now = MaxClock
    /\ last = NoCall

\* enqueue on a queue that is full or nearly so, explored while the queue
\* holds fewer than MaxQueue entries of this run
EnqueueAtCap ==
    \E doc \in EnqueueDocs, target \in EnqueueTargets, t \in ClockReads, outcome \in WriteOutcomes :
        /\ Len(SelectSeq(notifFile.list, LAMBDA n : ~IsOldEntry(n))) < MaxQueue
        /\ \E r \in {enqueueNewDocumentNotification(notifFile, doc, target, t, outcome)} :
           /\ notifFile' = r.file
           /\ now' = t
           /\ last' = [ op |-> "enqueue", arg |-> [doc |-> doc, target |-> target],
                        ret |-> r.entry, fault |-> r.threw, rep |-> FALSE,
                        prevRet |-> notifFile.list ]
        /\ UNCHANGED <<docFiles, cwdIsRepoRoot, registry, welcomed, lookups, loading, calls>>

NextCap == EnqueueAtCap \/ Drain

SpecCap == InitCap /\ [][NextCap]_vars

\* ------------------------------------ the document store, called on its own

\* records found in the files at start: one as addDocument writes it, and
\* records in the legacy shape
SeedCurrent == JsonObj(NewDocument([localPath |-> "docs/spec.txt", Title |-> "Spec v1"], "DOC-009", "T0"))
SeedLegacy == [id |-> "DOC-001", title |-> "Old", fileName |-> "legacy.docx", docNo |-> "77"]
SeedLegacyLib == [id |-> "doc-999", title |-> "Older", state |-> "pendigApprovel"]

\* the ids and states setState is called with
StateIds == {"DOC-001", "DOC-009", "doc-999", "DOC-404", ""}
NextStates == {"pendingApproval", "approved", "rejected"}

DocFilesAt(cwd, repo, lib) ==
    [p \in {"cwd", "repo", "lib"} |-> IF p = "cwd" THEN cwd ELSE IF p = "repo" THEN repo ELSE lib]

\* the deployments the store starts in: <<cwdIsRepoRoot, files>>
StoreLayouts ==
    { <<TRUE, NoDocFiles>>,
      <<FALSE, NoDocFiles>>,
      <<TRUE, DocFilesAt(DocsCorrupt, DocsMissing, DocsMissing)>>,
      <<TRUE, DocFilesAt(DocsNull, DocsMissing, DocsJson([pending |-> <<SeedLegacyLib>>]))>>,
      <<TRUE, DocFilesAt(DocsJson(EmptyObj), DocsMissing, DocsMissing)>>,
      <<TRUE, DocFilesAt(DocsJson([documents |-> <<SeedCurrent>>]), DocsMissing, DocsMissing)>>,
      <<TRUE, DocFilesAt(DocsJson([documents |-> <<SeedLegacyLib>>]), DocsMissing, DocsMissing)>>,
      <<TRUE, DocFilesAt(DocsJson([pending |-> <<SeedLegacy>>]), DocsMissing, DocsMissing)>>,
      <<FALSE, DocFilesAt(DocsMissing, DocsJson([documents |-> <<SeedLegacy>>]), DocsMissing)>>,
      <<TRUE, DocFilesAt(DocsCorrupt, DocsMissing, DocsJson([pending |-> <<SeedLegacyLib>>]))>> }

InitStore ==
    /\ \E layout \in StoreLayouts :
          /\ cwdIsRepoRoot = layout[1]
          /\ docFiles = layout[2]
    /\ notifFile = NotifMissing
    /\ registry = EmptyRegistry
    /\ welcomed = {}
    /\ lookups = {}
    /\ loading = NoInvocation
    /\ calls = NoCalls
    /\ now = MaxClock
    /\ last = NoCall

AddDocument ==
    \E input \in AddInputs, t \in ClockReads, outcome \in WriteOutcomes :
        /\ Len(readDocumentsFile(docFiles["cwd"])) < MaxDocs
        /\ \E r \in {addDocumentToApprovalList(docFiles, input, t, outcome)} :
           /\ docFiles' = r.files
           /\ now' = t
           /\ last' = [ op |-> "add", arg |-> input, ret |-> r.doc, fault |-> r.threw,
                        rep |-> FALSE, prevRet |-> <<>> ]
        /\ UNCHANGED <<notifFile, cwdIsRepoRoot, registry, welcomed, lookups, loading, calls>>

SetState ==
    \E id \in StateIds, state \in NextStates :
      \E outcome \in (IF FindIndex(getAllDocuments(docFiles), id) # 0 THEN WriteOutcomes ELSE {"ok"}) :
        /\ \E r \in {setDocumentState(docFiles, id, state, outcome)},
              arg \in {[id |-> id, state |-> state]} :
           \E again \in {last.op = "setState" /\ last.arg = arg /\ last.ret = [value |-> TRUE]} :
           /\ docFiles' = r.files
           /\ last' = [ op |-> "setState", arg |-> arg, ret |-> [value |-> r.ret],
                        fault |-> r.wrote /\ outcome # "ok",
                        rep |-> again, prevRet |-> IF again THEN <<last.ret>> ELSE <<>> ]
        /\ UNCHANGED <<notifFile, cwdIsRepoRoot, registry, welcomed, lookups, loading, now, calls>>

NextStore == AddDocument \/ SetState

SpecStore == InitStore /\ [][NextStore]_vars

\* ------------------------------ the reads of the two persisted files

\* the documents files and the notification file as the reads may find them
ReadLayouts ==
    { <<TRUE, NoDocFiles>>,
      <<FALSE, DocFilesAt(DocsCorrupt, DocsMissing, DocsCorrupt)>>,
      <<TRUE, DocFilesAt(DocsCorrupt, DocsMissing, DocsJson([pending |-> <<SeedLegacyLib>>]))>>,
      <<TRUE, DocFilesAt(DocsNull, DocsMissing, DocsJson([pending |-> <<SeedLegacyLib>>]))>>,
      <<TRUE, DocFilesAt(DocsJson([documents |-> <<SeedCurrent, SeedLegacy>>]), DocsMissing, DocsMissing)>> }

InitReads ==
    /\ \E layout \in ReadLayouts :
          /\ cwdIsRepoRoot = layout[1]
          /\ docFiles = layout[2]
    /\ notifFile \in {NotifMissing, NotifCorrupt, NotifList(<<SeedForCD, SeedBroadcast>>)}
    /\ registry = EmptyRegistry
    /\ welcomed = {}
    /\ lookups = {}
    /\ loading = NoInvocation
    /\ calls = NoCalls
    /\ now = MaxClock
    /\ last = NoCall

ReadCall(op, arg, ret) ==
    [op |-> op, arg |-> arg, ret |-> ret, fault |-> FALSE, rep |-> FALSE, prevRet |-> <<>>]

\* getAllDocuments()
ListAll ==
    /\ last' = ReadCall("listAll", EmptyObj, getAllDocuments(docFiles))
    /\ UNCHANGED <<notifFile, docFiles, cwdIsRepoRoot, registry, welcomed, lookups, loading, now, calls>>

\* getPendingApprovalDocuments()
ListPending ==
    /\ last' = ReadCall("listPending", EmptyObj, getPendingApprovalDocuments(docFiles))
    /\ UNCHANGED <<notifFile, docFiles, cwdIsRepoRoot, registry, welcomed, lookups, loading, now, calls>>

\* getPendingApprovalDocumentById(id); the ret is <<>> for null
GetById ==
    \E id \in StateIds :
        /\ last' = ReadCall("getById", [id |-> id],
                            IF getPendingApprovalDocumentById(docFiles, id) = EmptyObj THEN <<>>
                            ELSE <<getPendingApprovalDocumentById(docFiles, id)>>)
        /\ UNCHANGED <<notifFile, docFiles, cwdIsRepoRoot, registry, welcomed, lookups, loading, now, calls>>

\* readDocumentsFile(), as the documents API reads before it adds
ReadForAdd ==
    /\ last' = ReadCall("readDocumentsFile", EmptyObj, readDocumentsFile(docFiles["cwd"]))
    /\ UNCHANGED <<notifFile, docFiles, cwdIsRepoRoot, registry, welcomed, lookups, loading, now, calls>>

NextReads == ListAll \/ ListPending \/ GetById \/ ReadForAdd \/ Drain \/ Enqueue

SpecReads == InitReads /\ [][NextReads]_vars

\* ------------------------------------------------- conversation registry

\* r[k] = v on a JavaScript object
Put(map, k, v) == [x \in DOMAIN map \cup {k} |-> IF x = k THEN v ELSE map[x]]

\* the registry as readRegistry yields it after writeFile: a file that was
\* truncated does not parse and reads as the empty registry
WriteRegistry(old, r, outcome) ==
    CASE outcome = "ok" -> r
      [] outcome = "failKeep" -> old
      [] OTHER -> EmptyRegistry

\* an upsert that merges the new snapshot into the one already stored
upsertConversationRefMerging(reg, input, t, outcome) ==
    LET ref == JsonObj([ conversationId |-> input.conversationId,
                         serviceUrl |-> Get(input, "serviceUrl"),
                         updatedAt |-> "T" \o ToString(t),
                         userLabel |-> Get(input, "userLabel"),
                         email |-> IF Truthy(Get(input, "email")) THEN ToLowerCase(input.email) ELSE UNDEF ])
        Merge(index, k) == Put(index, k, IF k \in DOMAIN index THEN Spread(index[k], ref) ELSE ref)
        byAadObjectId ==
            IF Truthy(Get(input, "aadObjectId"))
            THEN Merge(reg.byAadObjectId, ToLowerCase(input.aadObjectId))
            ELSE reg.byAadObjectId
        byEmail ==
            IF Truthy(Get(ref, "email")) THEN Merge(reg.byEmail, ToLowerCase(ref.email)) ELSE reg.byEmail
    IN  WriteRegistry(reg, [byAadObjectId |-> byAadObjectId, byEmail |-> byEmail], outcome)

\* upsertConversationRef: the registry it leaves; a failed write is caught
upsertConversationRef(reg, input, t, outcome) ==
    LET ref == [ conversationId |-> input.conversationId,
                 serviceUrl |-> Get(input, "serviceUrl"),
                 updatedAt |-> "T" \o ToString(t),
                 userLabel |-> Get(input, "userLabel"),
                 email |-> IF Truthy(Get(input, "email")) THEN ToLowerCase(input.email) ELSE UNDEF ]
        byAadObjectId ==
            IF Truthy(Get(input, "aadObjectId"))
            THEN Put(reg.byAadObjectId, ToLowerCase(input.aadObjectId), JsonObj(ref))
            ELSE reg.byAadObjectId
        byEmail ==
            IF Truthy(ref.email)
            THEN Put(reg.byEmail, ToLowerCase(ref.email), JsonObj(ref))
            ELSE reg.byEmail
    IN  WriteRegistry(reg, [byAadObjectId |-> byAadObjectId, byEmail |-> byEmail], outcome)

\* getConversationRefByAadObjectId; EmptyObj for null
getConversationRefByAadObjectId(reg, aadObjectId) ==
    LET id == ToLowerCase(Trim(OrElse(aadObjectId, ""))) IN
    IF ~Truthy(id) THEN EmptyObj
    ELSE IF id \in DOMAIN reg.byAadObjectId THEN reg.byAadObjectId[id] ELSE EmptyObj

\* a lookup that tries the email key before the identity key
findConversationIdForTargetEmailFirst(reg, target) ==
    LET aad == Get(target, "aadObjectId")
        email == Get(target, "email")
        byAad == IF Truthy(aad) /\ ToLowerCase(aad) \in DOMAIN reg.byAadObjectId
                 THEN Get(reg.byAadObjectId[ToLowerCase(aad)], "conversationId") ELSE UNDEF
        byEmail == IF Truthy(email) /\ ToLowerCase(email) \in DOMAIN reg.byEmail
                   THEN Get(reg.byEmail[ToLowerCase(email)], "conversationId") ELSE UNDEF
    IN  IF Truthy(byEmail) THEN byEmail
        ELSE IF Truthy(byAad) THEN byAad
        ELSE UNDEF

\* findConversationIdForTarget; UNDEF for null
findConversationIdForTarget(reg, target) ==
    LET aad == Get(target, "aadObjectId")
        email == Get(target, "email")
        byAad == IF Truthy(aad) /\ ToLowerCase(aad) \in DOMAIN reg.byAadObjectId
                 THEN Get(reg.byAadObjectId[ToLowerCase(aad)], "conversationId") ELSE UNDEF
        byEmail == IF Truthy(email) /\ ToLowerCase(email) \in DOMAIN reg.byEmail
                   THEN Get(reg.byEmail[ToLowerCase(email)], "conversationId") ELSE UNDEF
    IN  IF Truthy(byAad) THEN byAad
        ELSE IF Truthy(byEmail) THEN byEmail
        ELSE UNDEF

\* --------------------------- the conversation registry, called on its own

\* what upsertConversationRef is called with
UpsertInputs ==
    { [aadObjectId |-> "U1", conversationId |-> "c1", userLabel |-> "Sam"],
      [aadObjectId |-> "u1", email |-> "A@B", conversationId |-> "c1b", serviceUrl |-> "https://s"],
      [email |-> "a@b", conversationId |-> "c2"],
      [aadObjectId |-> "U2", email |-> "c@d", conversationId |-> "c3"],
      [conversationId |-> "c4"],
      [aadObjectId |-> " ", conversationId |-> "c5"],
      [aadObjectId |-> "", email |-> "", conversationId |-> "c6"] }

\* what findConversationIdForTarget is called with
FindTargets ==
    { EmptyObj,
      [aadObjectId |-> "U1"],
      [aadObjectId |-> "u1", email |-> "c@d"],
      [aadObjectId |-> "U2", email |-> "A@B"],
      [aadObjectId |-> "U9", email |-> "A@B"],
      [email |-> "a@b"],
      [aadObjectId |-> " ", email |-> "x@y"] }

\* what getConversationRefByAadObjectId is called with
GetIdentities == {"U1", " u1 ", "U2", "U9", " ", ""}

InitRegistry ==
    /\ notifFile = NotifMissing
    /\ docFiles = NoDocFiles
    /\ cwdIsRepoRoot = TRUE
    /\ registry = EmptyRegistry
    /\ welcomed = {}
    /\ lookups = {}
    /\ loading = NoInvocation
    /\ calls = NoCalls
    /\ now = 1
    /\ last = NoCall

Upsert ==
    \E input \in UpsertInputs, t \in ClockReads, outcome \in WriteOutcomes :
        /\ registry' = upsertConversationRef(registry, input, t, outcome)
        /\ now' = t
        /\ last' = [ op |-> "upsert", arg |-> input, ret |-> <<>>, fault |-> outcome # "ok",
                     rep |-> FALSE,
                     prevRet |-> LET prev == getConversationRefByAadObjectId(registry, Get(input, "aadObjectId"))
                                 IN  IF prev = EmptyObj THEN <<>> ELSE <<prev>> ]
        /\ UNCHANGED <<notifFile, docFiles, cwdIsRepoRoot, welcomed, lookups, loading, calls>>

Find ==
    \E target \in FindTargets :
        /\ last' = [ op |-> "find", arg |-> target,
                     ret |-> [value |-> findConversationIdForTarget(registry, target)],
                     fault |-> FALSE, rep |-> FALSE, prevRet |-> <<>> ]
        /\ UNCHANGED <<notifFile, docFiles, cwdIsRepoRoot, registry, welcomed, lookups, loading, now, calls>>

GetByIdentity ==
    \E aadObjectId \in GetIdentities :
        /\ last' = [ op |-> "get", arg |-> [aadObjectId |-> aadObjectId],
                     ret |-> getConversationRefByAadObjectId(registry, aadObjectId),
                     fault |-> FALSE, rep |-> FALSE, prevRet |-> <<>> ]
        /\ UNCHANGED <<notifFile, docFiles, cwdIsRepoRoot, registry, welcomed, lookups, loading, now, calls>>

NextRegistry == Upsert \/ Find \/ GetByIdentity

SpecRegistry == InitRegistry /\ [][NextRegistry]_vars

\* ------------------------------------------------------ the cards sent

\* the activity carrying buildNewDocumentNotificationCard for a record or a
\* notification's doc
NewDocumentCard(d) ==
    JsonObj([ card |-> "newDocument",
              title |-> OrElse(Get(d, "Title"), OrElse(Get(d, "OriginalFileName"), Get(d, "id"))),
              documentNo |-> Get(d, "DocumentNo"),
              documentClass |-> Get(d, "DocumentClass"),
              documentRevision |-> Get(d, "DocumentRevision"),
              fileName |-> Get(d, "OriginalFileName"),
              docType |-> Get(d, "docType") ])

\* the activity carrying buildPendingApprovalsCard
PendingApprovalsCard(docs, userLabel) ==
    [card |-> "pendingApprovals", docs |-> docs, userLabel |-> userLabel]

\* the activity carrying buildUserChangeCard
UserChangeCard(summary, userDisplayName) ==
    [card |-> "userChange", summary |-> summary, userDisplayName |-> userDisplayName]

\* ---------------------------------------------- the documents API server

\* a && f(a) for the notifyEmail of the body
NotifyEmailOf(body) ==
    IF Truthy(Get(body, "notifyEmail")) THEN ToLowerCase(Trim(body.notifyEmail)) ELSE UNDEF

\* the targetEmail the POST handler derives from the body and the new record
TargetEmail(body, doc) ==
    OrElse(NotifyEmailOf(body),
    OrElse(tryExtractEmail(Get(body, "ResponsiblePerson")),
    OrElse(tryExtractEmail(Get(doc, "ResponsiblePerson")),
    OrElse(tryExtractEmail(Get(body, "ModifiedBy")),
    OrElse(tryExtractEmail(Get(doc, "ModifiedBy")),
    OrElse(tryExtractEmail(Get(body, "CreatedBy")),
    OrElse(tryExtractEmail(Get(doc, "CreatedBy")),
    OrElse(tryExtractEmail(Get(body, "OriginalCreator")),
    OrElse(tryExtractEmail(Get(doc, "OriginalCreator")), UNDEF)))))))))

\* a body that has a local path and no title passes
IsValidBodyPathOnly(body) == Truthy(Get(body, "localPath"))

\* the body has the fields the POST handler requires
IsValidBody(body) == Truthy(Get(body, "localPath")) /\ Truthy(Get(body, "Title"))

\* notified reported whenever a conversation is known
NotifiedWhenFound(conversationId, sendOk) == Truthy(conversationId)

\* notified: a conversation was found and app.send to it did not throw
Notified(conversationId, sendOk) == Truthy(conversationId) /\ sendOk

\* what the server answers
Response(status, doc, notified, sent) ==
    [status |-> status, doc |-> doc, notified |-> notified, sent |-> sent]

\* the request handler of startDocumentApiServer: the files it leaves, the
\* response, and the proactive sends it made
onRequest(req, files, notif, reg, t, addOutcome, enqueueOutcome, sendOk) ==
    IF req.method = "POST" /\ req.url = "/api/documents"
    THEN IF ~IsValidBody(req.body)
         THEN [files |-> files, notif |-> notif, res |-> Response(400, EmptyObj, FALSE, <<>>)]
         ELSE LET a == addDocumentToApprovalList(files, req.body, t, addOutcome) IN
              IF a.threw
              THEN [files |-> a.files, notif |-> notif, res |-> Response(500, EmptyObj, FALSE, <<>>)]
              ELSE LET targetEmail == TargetEmail(req.body, a.doc)
                       target == [email |-> targetEmail, aadObjectId |-> Get(req.body, "notifyAadObjectId")]
                       e == enqueueNewDocumentNotification(notif, a.doc, TargetArg(target), t, enqueueOutcome)
                   IN
                   IF e.threw
                   THEN [files |-> a.files, notif |-> e.file, res |-> Response(500, EmptyObj, FALSE, <<>>)]
                   ELSE LET conversationId == findConversationIdForTarget(reg, target)
                            notified == Notified(conversationId, sendOk)
                        IN  [ files |-> a.files, notif |-> e.file,
                              res |-> Response(200, a.doc, notified,
                                               IF notified
                                               THEN <<[to |-> conversationId, activity |-> NewDocumentCard(a.doc)]>>
                                               ELSE <<>>) ]
    ELSE IF req.method = "GET" /\ req.url \in {"/", "/healthz"}
    THEN [files |-> files, notif |-> notif, res |-> Response(200, EmptyObj, FALSE, <<>>)]
    ELSE [files |-> files, notif |-> notif, res |-> Response(404, EmptyObj, FALSE, <<>>)]

\* ------------------------------------------------- the message handler

\* s.includes(sub) over the strings of the model
Includes(s, sub) ==
    CASE sub = "@" -> s \in {"A@B", "a@b", "c@d", " A@B ", "Sam <A@B>"}
      [] OTHER -> s = sub

\* lower.startsWith("change ") over the strings of the model
StartsWithChange(lower) == lower = "change x"

getUserLabel(ctx) ==
    LET from == ctx.activity.from
        name == OrElse(Trim(Get(from, "name")), OrElse(Trim(Get(ctx, "userName")), UNDEF))
        upn == OrElse(Trim(Get(from, "userPrincipalName")), UNDEF)
    IN  IF Truthy(name) /\ Truthy(upn) /\ ~Includes(name, upn)
        THEN name \o " (" \o upn \o ")"
        ELSE Nullish(name, upn)

getUserIdentity(ctx) ==
    LET from == ctx.activity.from
        aadObjectId == OrElse(Trim(Get(from, "aadObjectId")), UNDEF)
        userName == Get(ctx, "userName")
        email == OrElse(Trim(Get(from, "userPrincipalName")),
                 OrElse(IF userName # UNDEF /\ Includes(userName, "@") THEN Trim(userName) ELSE "",
                        UNDEF))
    IN  [ aadObjectId |-> aadObjectId,
          email |-> IF Truthy(email) THEN ToLowerCase(email) ELSE UNDEF ]

\* the greetings the handler knows
Greetings == {"hi", "hello", "hey", "hi!", "hello!", "hey!"}

\* the conversation id is a string that is not blank
HasConversation(ctx) == Truthy(Trim(Get(ctx.activity.conversation, "id")))

\* the arguments of the handler's upsertConversationRef
UpsertInput(ctx) ==
    LET ident == getUserIdentity(ctx) IN
    JsonObj([ aadObjectId |-> ident.aadObjectId,
              email |-> ident.email,
              conversationId |-> Trim(ctx.activity.conversation.id),
              serviceUrl |-> Get(ctx.activity, "serviceUrl"),
              userLabel |-> getUserLabel(ctx) ])

\* StartsLookup for every sender, known by email or not
StartsLookupAlways(ctx) == HasConversation(ctx)

\* the handler starts the detached Graph lookup
StartsLookup(ctx) ==
    LET ident == getUserIdentity(ctx) IN
    HasConversation(ctx) /\ ~Truthy(ident.email) /\ Truthy(ident.aadObjectId)

\* ShowsWelcome that shows the welcome card once and never again
ShowsWelcomeOnce(ctx, stor) ==
    LET conversationId == Get(ctx.activity.conversation, "id")
        alreadyWelcomed == Truthy(conversationId) /\ conversationId \in stor
    IN  ~alreadyWelcomed

\* the welcome card is shown: the conversation was not welcomed, or the text
\* is a greeting
ShowsWelcome(ctx, stor) ==
    LET conversationId == Get(ctx.activity.conversation, "id")
        alreadyWelcomed == Truthy(conversationId) /\ conversationId \in stor
    IN  ~alreadyWelcomed \/ ToLowerCase(Trim(Nullish(Get(ctx.activity, "text"), ""))) \in Greetings

\* the message handler for an activity that is no card submit and carries no
\* file: what it leaves and what it sent; failAt is the send that throws
onMessage(ctx, reg, stor, files, notif, t, regOutcome, drainOutcome, failAt) ==
    LET activity == ctx.activity
        reg1 == IF HasConversation(ctx)
                THEN upsertConversationRef(reg, UpsertInput(ctx), t, regOutcome)
                ELSE reg
        started == IF StartsLookup(ctx) THEN {UpsertInput(ctx)} ELSE {}
        text == Trim(Nullish(Get(activity, "text"), ""))
        lower == ToLowerCase(text)
        conversationId == Get(activity.conversation, "id")
        stor1 == IF Truthy(conversationId) THEN stor \cup {conversationId} ELSE stor
    IN  IF ShowsWelcome(ctx, stor)
        THEN LET card == PendingApprovalsCard(getPendingApprovalDocuments(files),
                                              getUserLabel(ctx))
             IN  IF failAt = 1
                 THEN [ registry |-> reg1, started |-> started, welcomed |-> stor1, notif |-> notif,
                        sent |-> <<>>, notes |-> <<>>, drainFault |-> FALSE, threw |-> TRUE ]
                 ELSE LET d == drainNotificationsForUser(notif, getUserIdentity(ctx), drainOutcome) IN
                      IF d.ret = <<>>
                      THEN [ registry |-> reg1, started |-> started, welcomed |-> stor1, notif |-> d.file,
                             sent |-> <<card>>, notes |-> d.ret, drainFault |-> d.fault, threw |-> FALSE ]
                      ELSE IF failAt = 2
                      THEN [ registry |-> reg1, started |-> started, welcomed |-> stor1, notif |-> d.file,
                             sent |-> <<card>>, notes |-> d.ret, drainFault |-> d.fault, threw |-> TRUE ]
                      ELSE [ registry |-> reg1, started |-> started, welcomed |-> stor1, notif |-> d.file,
                             sent |-> <<card, NewDocumentCard(d.ret[1].doc)>>, notes |-> d.ret,
                             drainFault |-> d.fault, threw |-> FALSE ]
        ELSE LET reply == IF lower = "change" \/ StartsWithChange(lower)
                          THEN UserChangeCard(IF Len(text) > Len("change") THEN text
                                              ELSE "Please review the requested change.",
                                              OrElse(Get(activity.from, "name"),
                                                     OrElse(Get(activity.from, "aadObjectId"), UNDEF)))
                          ELSE [text |-> "you said: " \o text]
             IN  [ registry |-> reg1, started |-> started, welcomed |-> stor, notif |-> notif,
                   sent |-> IF failAt = 1 THEN <<>> ELSE <<reply>>, notes |-> <<>>,
                   drainFault |-> FALSE, threw |-> failAt = 1 ]

\* the detached lookup started by the handler: what Graph answered decides
\* whether the registry is written again
graphLookup(reg, l, answer, t, outcome) ==
    LET existing == getConversationRefByAadObjectId(reg, l.aadObjectId) IN
    IF Truthy(Get(existing, "email")) THEN reg
    ELSE IF ~Truthy(answer) THEN reg
    ELSE upsertConversationRef(reg, Spread(l, [email |-> answer]), t, outcome)

\* ------------------------------------------------ the program, end to end

\* the requests the documents API receives
Requests ==
    { [method |-> "POST", url |-> "/api/documents",
       body |-> [localPath |-> "docs/spec.txt", Title |-> "Spec v2"]],
      [method |-> "POST", url |-> "/api/documents",
       body |-> [Title |-> "Spec v2"]],
      [method |-> "POST", url |-> "/api/documents",
       body |-> [localPath |-> "docs/spec.txt", Title |-> ""]],
      [method |-> "POST", url |-> "/api/documents",
       body |-> [localPath |-> "docs/spec.txt", Title |-> "Spec v2", notifyEmail |-> " A@B "]],
      [method |-> "POST", url |-> "/api/documents",
       body |-> [localPath |-> "docs/a.bin", Title |-> "Blob", OriginalFileName |-> "Spec.PDF",
                 notifyAadObjectId |-> "U1"]],
      [method |-> "GET", url |-> "/healthz", body |-> EmptyObj],
      [method |-> "GET", url |-> "/api/documents", body |-> EmptyObj] }

\* who writes to the bot: a user Teams names by directory id only, and one it
\* names by principal name
Senders ==
    { [aadObjectId |-> "U1", name |-> "Sam"],
      [userPrincipalName |-> "A@B"] }

ConversationOf(from) == IF "aadObjectId" \in DOMAIN from THEN "c1" ELSE "c2"

Texts == {" Hello! ", "Change x", "what"}

Contexts ==
    { [activity |-> [from |-> from, conversation |-> [id |-> ConversationOf(from)], text |-> text]] :
        from \in Senders, text \in Texts }

\* what getEmailForAadObjectId resolves to: an email, trimmed and lower-cased
\* by pickEmail, or nothing
GraphAnswers == {"a@b", UNDEF}

Init ==
    /\ notifFile = NotifMissing
    /\ docFiles = NoDocFiles
    /\ cwdIsRepoRoot = TRUE
    /\ registry = EmptyRegistry
    /\ welcomed = {}
    /\ lookups = {}
    /\ loading = NoInvocation
    /\ calls = NoCalls
    /\ now = MaxClock
    /\ last = NoCall

\* a handler run meets at most one failure of its environment: the step it
\* strikes at and what it does there
NoFault == [at |-> "none", how |-> "ok"]
WriteFaults(steps) == {[at |-> step, how |-> how] : step \in steps, how \in WriteOutcomes \ {"ok"}}
SendFaults(steps) == {[at |-> step, how |-> "throws"] : step \in steps}
OutcomeAt(f, step) == IF f.at = step THEN f.how ELSE "ok"

\* a request to the documents API, handled to its response
Inject ==
    \E req \in Requests, t \in ClockReads :
      LET adds == req.method = "POST" /\ req.url = "/api/documents" /\ IsValidBody(req.body) IN
      \E f \in (IF adds THEN {NoFault} \cup WriteFaults({"add", "enqueue"}) \cup SendFaults({"send"})
                ELSE {NoFault}) :
        /\ adds => /\ Len(readDocumentsFile(docFiles["cwd"])) < MaxDocs
                   /\ Len(notifFile.list) < MaxQueue
        /\ \E r \in {onRequest(req, docFiles, notifFile, registry, t,
                                OutcomeAt(f, "add"), OutcomeAt(f, "enqueue"), f.at # "send")} :
           /\ f.at = "send" =>
                 onRequest(req, docFiles, notifFile, registry, t, "ok", "ok", TRUE).res.notified
           /\ docFiles' = r.files
           /\ notifFile' = r.notif
           /\ now' = t
           /\ last' = [ op |-> "inject", arg |-> req, ret |-> r.res, fault |-> r.res.status = 500,
                        rep |-> FALSE, prevRet |-> <<>>, env |-> f ]
        /\ UNCHANGED <<cwdIsRepoRoot, registry, welcomed, lookups, loading, calls>>

\* ------------------------------------- the documents API, called on its own

\* registries as the message handler leaves them: one conversation known by
\* identity, then another known by email, then the first one's email resolved
RegistryKnowingIdentity ==
    upsertConversationRef(EmptyRegistry,
        [aadObjectId |-> "U1", conversationId |-> "c1", userLabel |-> "Sam"], 0, "ok")
RegistryKnowingBoth ==
    upsertConversationRef(RegistryKnowingIdentity,
        [email |-> "c@d", conversationId |-> "c2", userLabel |-> "c@d"], 0, "ok")
RegistryAfterLookup ==
    upsertConversationRef(RegistryKnowingBoth,
        [aadObjectId |-> "U1", email |-> "a@b", conversationId |-> "c1", userLabel |-> "Sam"], 0, "ok")

InitInject ==
    /\ notifFile = NotifMissing
    /\ docFiles = NoDocFiles
    /\ cwdIsRepoRoot = TRUE
    /\ registry \in {EmptyRegistry, RegistryKnowingIdentity, RegistryKnowingBoth, RegistryAfterLookup}
    /\ welcomed = {}
    /\ lookups = {}
    /\ loading = NoInvocation
    /\ calls = NoCalls
    /\ now = MaxClock
    /\ last = NoCall

SpecInject == InitInject /\ [][Inject]_vars

\* a message activity, handled to its end
Message ==
    \E ctx \in Contexts, t \in ClockReads :
      \E f \in {NoFault} \cup WriteFaults({"registry", "drain"}) \cup SendFaults({"send1", "send2"}) :
        \E r \in {onMessage(ctx, registry, welcomed, docFiles, notifFile, t,
                             OutcomeAt(f, "registry"), OutcomeAt(f, "drain"),
                             IF f.at = "send1" THEN 1 ELSE IF f.at = "send2" THEN 2 ELSE 0)} :
        /\ f.at = "registry" => HasConversation(ctx)
        /\ f.at = "drain" => r.drainFault
        /\ f.at = "send2" => r.notes # <<>>
        /\ registry' = r.registry
        /\ welcomed' = r.welcomed
        /\ notifFile' = r.notif
        /\ lookups' = lookups \cup r.started
        /\ now' = t
        /\ last' = [ op |-> "message", arg |-> ctx,
                     ret |-> [sent |-> r.sent, notes |-> r.notes],
                     fault |-> r.threw \/ r.drainFault, rep |-> FALSE, prevRet |-> <<>> ]
        /\ UNCHANGED <<docFiles, cwdIsRepoRoot, loading, calls>>

\* a detached Graph lookup runs
GraphLookup ==
    \E l \in lookups, answer \in GraphAnswers, t \in ClockReads :
      \E outcome \in (IF Truthy(answer) THEN WriteOutcomes ELSE {"ok"}) :
        /\ registry' = graphLookup(registry, l, answer, t, outcome)
        /\ lookups' = lookups \ {l}
        /\ now' = t
        /\ last' = [ op |-> "graphLookup", arg |-> l, ret |-> [email |-> answer], fault |-> FALSE,
                     rep |-> FALSE, prevRet |-> <<>> ]
        /\ UNCHANGED <<notifFile, docFiles, cwdIsRepoRoot, welcomed, loading, calls>>

Next == Inject \/ Message \/ GraphLookup

Spec == Init /\ [][Next]_vars

\* the bot's messages and their detached lookups, with no document injected
NextLookup == Message \/ GraphLookup

SpecLookup == Init /\ [][NextLookup]_vars

\* ---------------------------------------------- the loading placeholder
\* runWithLoading of a card submit, one action per await point.  The
\* invocation record keeps the closure's locals, the interval timer of
\* startTypingLoop and the calls made on the gateway, in order.

MaxTyping == 2      \* typing signals one invocation is explored to send

\* buildLoadingCard, in the message activity that carries it
LoadingActivity(title, message) ==
    [ type |-> "message", card |-> "loading",
      title |-> Nullish(title, "Working..."),
      message |-> Nullish(message, "Please wait while I process your request.") ]

\* buildInfoCard, in the message activity that carries it
InfoActivity(title, message) ==
    [ type |-> "message", card |-> "info", title |-> title,
      message |-> IF Truthy(message) THEN message ELSE UNDEF ]

\* String(e?.message ?? e ?? "Unknown error") for a thrown object
ErrorMessage(e) == Nullish(Get(e, "message"), "[object Object]")

\* the final activity substituted when params.work throws e
ErrorActivity(e) == InfoActivity("Something went wrong", ErrorMessage(e))

\* the activity the show_pending_approvals work returns
PendingListActivity(files) ==
    [type |-> "message", card |-> "pendingApprovalsList", docs |-> getPendingApprovalDocuments(files)]

\* the card submits explored: activity.replyToId and activity.conversation.id,
\* and whether the gateway client offers update and delete
Submits ==
    { [replyToId |-> t, conversationId |-> c, update |-> u, delete |-> d] :
        t \in {UNDEF, "card-1"}, c \in {"c1", " "}, u \in BOOLEAN, d \in BOOLEAN }

\* what ctx.send resolves to; NoObject is the null the loading send's catch yields
NoObject == [sent |-> "null"]
SentObjects == { [id |-> "sent-1"], [id |-> "", activityId |-> "sent-2"], [type |-> "message"] }

\* what params.work does: the value it resolves to, or the object it throws
WorkOutcomes(files) ==
    { [threw |-> FALSE, value |-> PendingListActivity(files)],
      [threw |-> TRUE, value |-> [message |-> "ENOENT"]],
      [threw |-> TRUE, value |-> EmptyObj] }

IsString(v) == v # UNDEF

getSentActivityId(sent) ==
    IF IsString(Get(sent, "id")) /\ Truthy(Get(sent, "id")) THEN sent.id
    ELSE IF IsString(Get(sent, "activityId")) /\ Truthy(Get(sent, "activityId")) THEN sent.activityId
    ELSE UNDEF

getConversationId(ctx) ==
    IF IsString(Get(ctx, "conversationId")) /\ Truthy(Trim(ctx.conversationId))
    THEN Trim(ctx.conversationId) ELSE UNDEF

\* one call on the gateway, as the invocation's trace keeps it
Event(ev, id, activity, res, ret) == [ev |-> ev, id |-> id, activity |-> activity, res |-> res, ret |-> ret]

\* tryUpdateActivity: the boolean it resolves to, from what the gateway did
tryUpdateActivity(ctx, activityId, next, outcome) ==
    IF ~Truthy(getConversationId(ctx)) THEN "unavailable"
    ELSE IF ~ctx.update THEN "unavailable"
    ELSE outcome

\* tryDeleteActivity: what became of the call; it resolves to nothing
tryDeleteActivity(ctx, activityId, outcome) ==
    IF ~Truthy(getConversationId(ctx)) THEN "unavailable"
    ELSE IF ~ctx.delete THEN "unavailable"
    ELSE outcome

GatewayOutcomes == {"ok", "fail"}

\* startTypingLoop: one typing signal at once, and the interval timer
startTypingLoop(ctx) ==
    [ pc |-> "begun", ctx |-> ctx,
      targetId |-> IF IsString(ctx.replyToId) THEN ctx.replyToId ELSE UNDEF,
      placeholderId |-> IF IsString(ctx.replyToId) THEN ctx.replyToId ELSE UNDEF,
      loadingActivity |-> EmptyObj,
      didUpdate |-> FALSE, finalActivity |-> EmptyObj,
      timer |-> TRUE, typing |-> 1, escaped |-> "none",
      trace |-> <<Event("typing", UNDEF, EmptyObj, "ok", EmptyObj)>> ]

\* the loading card of the show_pending_approvals submit
SubmitLoadingActivity == LoadingActivity("Loading documents...", "Fetching pending approvals list.")

\* runWithLoading up to its first await: the update of the triggering card, or
\* the send of a loading card when there is no triggering card
afterStart(inv, loadingActivity) ==
    [inv EXCEPT !.loadingActivity = loadingActivity,
                !.pc = IF Truthy(inv.targetId) THEN "updateLoading" ELSE "sendLoading"]

\* didUpdate = await tryUpdateActivity(params.targetId, loadingActivity)
afterUpdateLoading(inv, res) ==
    [inv EXCEPT !.didUpdate = (res = "ok"),
                !.pc = IF res = "ok" THEN "work" ELSE "deleteTrigger",
                !.trace = Append(@, Event("update", inv.targetId, inv.loadingActivity, res, EmptyObj))]

\* if (params.targetId) await tryDeleteActivity(params.targetId)
afterDeleteTrigger(inv, res) ==
    [inv EXCEPT !.pc = "sendLoading",
                !.trace = Append(@, Event("delete", inv.targetId, EmptyObj, res, EmptyObj))]

\* afterSendLoading keeping the triggering card as the placeholder
afterSendLoadingKeepingTarget(inv, sent) ==
    [inv EXCEPT !.pc = "work",
                !.trace = Append(@, Event("send", UNDEF, inv.loadingActivity,
                                          IF sent = NoObject THEN "fail" ELSE "ok", sent))]

\* sent = await ctx.send(loadingActivity).catch(() => null); placeholderId = getSentActivityId(sent)
afterSendLoading(inv, sent) ==
    [inv EXCEPT !.placeholderId = getSentActivityId(sent),
                !.pc = "work",
                !.trace = Append(@, Event("send", UNDEF, inv.loadingActivity,
                                          IF sent = NoObject THEN "fail" ELSE "ok", sent))]

\* where replaceOrSendFinal first awaits
FinalEntry(placeholderId) == IF Truthy(placeholderId) THEN "updateFinal" ELSE "sendFinal"

\* afterWork with stopTyping on the returning path only
afterWorkLeakingOnThrow(inv, outcome) ==
    [inv EXCEPT !.finalActivity = IF outcome.threw THEN ErrorActivity(outcome.value) ELSE outcome.value,
                !.timer = IF outcome.threw THEN @ ELSE FALSE,
                !.pc = FinalEntry(inv.placeholderId),
                !.trace = @ \o <<Event("work", UNDEF, EmptyObj, IF outcome.threw THEN "threw" ELSE "ok", outcome.value)>>
                            \o (IF outcome.threw THEN <<>>
                                ELSE <<Event("stopTyping", UNDEF, EmptyObj, "ok", EmptyObj)>>)]

\* afterWork with no catch around params.work
afterWorkPropagating(inv, outcome) ==
    [inv EXCEPT !.finalActivity = IF outcome.threw THEN @ ELSE outcome.value,
                !.timer = FALSE,
                !.escaped = IF outcome.threw THEN "work" ELSE @,
                !.pc = IF outcome.threw THEN "threw" ELSE FinalEntry(inv.placeholderId),
                !.trace = @ \o <<Event("work", UNDEF, EmptyObj, IF outcome.threw THEN "threw" ELSE "ok", outcome.value),
                                 Event("stopTyping", UNDEF, EmptyObj, "ok", EmptyObj)>>]

\* try { finalActivity = await params.work() } catch { ... } finally { stopTyping() },
\* and the call of replaceOrSendFinal up to its first await
afterWork(inv, outcome) ==
    [inv EXCEPT !.finalActivity = IF outcome.threw THEN ErrorActivity(outcome.value) ELSE outcome.value,
                !.timer = FALSE,
                !.pc = FinalEntry(inv.placeholderId),
                !.trace = @ \o <<Event("work", UNDEF, EmptyObj, IF outcome.threw THEN "threw" ELSE "ok", outcome.value),
                                 Event("stopTyping", UNDEF, EmptyObj, "ok", EmptyObj)>>]

\* afterUpdateFinal that sends the final card whatever the update did
afterUpdateFinalAlwaysSending(inv, res) ==
    [inv EXCEPT !.pc = "sendFinal",
                !.trace = Append(@, Event("update", inv.placeholderId, inv.finalActivity, res, EmptyObj))]

\* updated = await tryUpdateActivity(placeholderId, finalActivity); if (updated) return
afterUpdateFinal(inv, res) ==
    [inv EXCEPT !.pc = IF res = "ok" THEN "done" ELSE "sendFinal",
                !.trace = Append(@, Event("update", inv.placeholderId, inv.finalActivity, res, EmptyObj))]

\* await ctx.send(finalActivity): a rejection leaves runWithLoading
afterSendFinal(inv, outcome) ==
    [inv EXCEPT !.pc = IF outcome # "ok" THEN "threw"
                       ELSE IF Truthy(inv.placeholderId) THEN "deleteStale" ELSE "done",
                !.escaped = IF outcome # "ok" THEN "send" ELSE @,
                !.trace = Append(@, Event("send", UNDEF, inv.finalActivity, outcome, EmptyObj))]

\* if (placeholderId) await tryDeleteActivity(placeholderId)
afterDeleteStale(inv, res) ==
    [inv EXCEPT !.pc = "done",
                !.trace = Append(@, Event("delete", inv.placeholderId, EmptyObj, res, EmptyObj))]

InitLoading ==
    /\ notifFile = NotifMissing
    /\ docFiles = NoDocFiles
    /\ cwdIsRepoRoot = TRUE
    /\ registry = EmptyRegistry
    /\ welcomed = {}
    /\ lookups = {}
    /\ loading = NoInvocation
    /\ calls = NoCalls
    /\ now = MaxClock
    /\ last = NoCall

Others == <<notifFile, docFiles, cwdIsRepoRoot, registry, welcomed, lookups, now, calls, last>>

\* a show_pending_approvals submit arrives; the handler enters runWithLoading
Begin ==
    \E ctx \in Submits :
        /\ loading.pc \in {"idle", "done", "threw"}
        /\ loading' = afterStart(startTypingLoop(ctx), SubmitLoadingActivity)
        /\ UNCHANGED Others

\* the interval timer fires: another typing signal
Tick ==
    /\ loading.timer
    /\ loading.typing < MaxTyping
    /\ loading' = [loading EXCEPT !.typing = @ + 1]
    /\ UNCHANGED Others

UpdateLoading ==
    \E outcome \in GatewayOutcomes :
        /\ loading.pc = "updateLoading"
        /\ loading' = afterUpdateLoading(loading,
                          tryUpdateActivity(loading.ctx, loading.targetId, loading.loadingActivity, outcome))
        /\ UNCHANGED Others

DeleteTrigger ==
    \E outcome \in GatewayOutcomes :
        /\ loading.pc = "deleteTrigger"
        /\ loading' = afterDeleteTrigger(loading, tryDeleteActivity(loading.ctx, loading.targetId, outcome))
        /\ UNCHANGED Others

SendLoading ==
    \E sent \in SentObjects \cup {NoObject} :
        /\ loading.pc = "sendLoading"
        /\ loading' = afterSendLoading(loading, sent)
        /\ UNCHANGED Others

Work ==
    \E outcome \in WorkOutcomes(docFiles) :
        /\ loading.pc = "work"
        /\ loading' = afterWork(loading, outcome)
        /\ UNCHANGED Others

UpdateFinal ==
    \E outcome \in GatewayOutcomes :
        /\ loading.pc = "updateFinal"
        /\ loading' = afterUpdateFinal(loading,
                          tryUpdateActivity(loading.ctx, loading.placeholderId, loading.finalActivity, outcome))
        /\ UNCHANGED Others

SendFinal ==
    \E outcome \in GatewayOutcomes :
        /\ loading.pc = "sendFinal"
        /\ loading' = afterSendFinal(loading, outcome)
        /\ UNCHANGED Others

DeleteStale ==
    \E outcome \in GatewayOutcomes :
        /\ loading.pc = "deleteStale"
        /\ loading' = afterDeleteStale(loading, tryDeleteActivity(loading.ctx, loading.placeholderId, outcome))
        /\ UNCHANGED Others

NextLoading ==
    \/ Begin \/ Tick \/ UpdateLoading \/ DeleteTrigger \/ SendLoading
    \/ Work \/ UpdateFinal \/ SendFinal \/ DeleteStale

SpecLoading == InitLoading /\ [][NextLoading]_vars

\* every await of a running invocation resumes once the gateway has answered;
\* the arrival of a submit and the end of the work are not the handler's to force
SpecLoadingFair ==
    /\ SpecLoading
    /\ WF_vars(UpdateLoading) /\ WF_vars(DeleteTrigger) /\ WF_vars(SendLoading)
    /\ WF_vars(UpdateFinal) /\ WF_vars(SendFinal) /\ WF_vars(DeleteStale)

\* --------------------------------------------------- the event dispatcher
\* The whole "message" handler: the registry upsert, then the card-submit
\* actions, then the classification of the text.  A handler that shows a
\* loading placeholder runs runWithLoading to its end here; its await
\* points are explored one by one in SpecLoading.

\* the step of runWithLoading that inv.pc names: gw names what the gateway
\* does to each call, outcome what the work did
runStep(ctx, loadingActivity, outcome, gw, inv) ==
    CASE inv.pc = "updateLoading" ->
           afterUpdateLoading(inv, tryUpdateActivity(ctx, inv.targetId, loadingActivity, gw.updateLoading))
      [] inv.pc = "deleteTrigger" ->
           afterDeleteTrigger(inv, tryDeleteActivity(ctx, inv.targetId, gw.deleteTrigger))
      [] inv.pc = "sendLoading" -> afterSendLoading(inv, gw.sendLoading)
      [] inv.pc = "work" -> afterWork(inv, outcome)
      [] inv.pc = "updateFinal" ->
           afterUpdateFinal(inv, tryUpdateActivity(ctx, inv.placeholderId, inv.finalActivity, gw.updateFinal))
      [] inv.pc = "sendFinal" -> afterSendFinal(inv, gw.sendFinal)
      [] inv.pc = "deleteStale" ->
           afterDeleteStale(inv, tryDeleteActivity(ctx, inv.placeholderId, gw.deleteStale))
      [] OTHER -> inv

\* runWithLoading from the step inv.pc names to its end
RECURSIVE runFrom(_, _, _, _, _)
runFrom(ctx, loadingActivity, outcome, gw, inv) ==
    IF inv.pc \in {"updateLoading", "deleteTrigger", "sendLoading", "work",
                   "updateFinal", "sendFinal", "deleteStale"}
    THEN runFrom(ctx, loadingActivity, outcome, gw, runStep(ctx, loadingActivity, outcome, gw, inv))
    ELSE inv

\* runWithLoading from start to end
runWithLoading(ctx, loadingActivity, outcome, gw) ==
    runFrom(ctx, loadingActivity, outcome, gw, afterStart(startTypingLoop(ctx), loadingActivity))

\* activity.value of a card submit; an activity without one has no action
ValueOf(activity) == IF "value" \in DOMAIN activity THEN activity.value ELSE EmptyObj

\* the card-submit actions the handler knows, in the order it tests them
SubmitActions ==
    << "show_pending_approvals", "select_pending_doc", "ask_doc_question", "approve_doc",
       "reject_doc", "dismiss_pending_approvals", "ack_change", "request_change_details",
       "confirm_document", "reject_document" >>

\* getAttachmentFileName for attachments that name their file directly
getAttachmentFileName(a) == OrElse(Trim(Get(a, "name")), OrElse(Trim(Get(a, "filename")), UNDEF))

\* getFileNameFromActivity: the first attachment that names a file
RECURSIVE FirstFileName(_, _)
FirstFileName(attachments, i) ==
    IF i > Len(attachments) THEN UNDEF
    ELSE IF Truthy(getAttachmentFileName(attachments[i])) THEN getAttachmentFileName(attachments[i])
    ELSE FirstFileName(attachments, i + 1)

getFileNameFromActivity(activity) ==
    FirstFileName(IF "attachments" \in DOMAIN activity THEN activity.attachments ELSE <<>>, 1)

\* the activity carrying buildDocumentInfoCard
DocumentInfoCard(fileName) == [type |-> "message", card |-> "documentInfo", fileName |-> fileName]

\* the activity carrying buildDocSummaryAndQuestionCard
SummaryActivity(doc, summary) ==
    [type |-> "message", card |-> "docSummaryAndQuestion", docId |-> doc.id, summary |-> summary]

\* the activity carrying buildDocAnswerCard
AnswerActivity(doc, question, answer) ==
    [type |-> "message", card |-> "docAnswer", docId |-> doc.id, question |-> question, answer |-> answer]

CantReadActivity ==
    InfoActivity("Can't read document", "I couldn't read the local document content for this item.")

NotFoundText == [text |-> "I couldn't find that document. Please refresh the list."]

\* doc?.Title || doc?.title || doc?.OriginalFileName || doc?.fileName || docId
DocLabel(doc, docId) ==
    OrElse(Get(doc, "Title"), OrElse(Get(doc, "title"),
    OrElse(Get(doc, "OriginalFileName"), OrElse(Get(doc, "fileName"), docId))))

\* the gateway side of a context, as the placeholder protocol reads it
GatewayOf(ctx) ==
    [ replyToId |-> Get(ctx.activity, "replyToId"),
      conversationId |-> Get(ctx.activity.conversation, "id"),
      update |-> ctx.update, delete |-> ctx.delete ]

\* what a submit handler leaves: the files, the messages ctx.send delivered
\* outside the placeholder protocol, the placeholder invocation, the LLM
\* calls made, and whether an exception left the handler
SubmitResult(files, sent, inv, llm, threw) ==
    [files |-> files, sent |-> sent, inv |-> inv, llm |-> llm, threw |-> threw]

\* a handler that answers with one plain text
TextReply(files, text, e) ==
    SubmitResult(files, IF e.failAt = 1 THEN <<>> ELSE <<[text |-> text]>>, NoInvocation, 0, e.failAt = 1)

\* the work of select_pending_doc and ask_doc_question: read the text, then
\* ask the model, whose failure becomes the text of the card
DocWorkOutcome(docText, card) ==
    [threw |-> FALSE, value |-> IF docText = "" THEN CantReadActivity ELSE card]

\* what a handler leaves whose reply goes through the placeholder protocol
LoadingResult(files, inv, llm) == SubmitResult(files, <<>>, inv, llm, inv.pc = "threw")

\* approve_doc and reject_doc after runWithLoading: the refreshed list
decided(files, inv, e) ==
    IF inv.pc = "threw" THEN SubmitResult(files, <<>>, inv, 0, TRUE)
    ELSE IF e.failAt = 1 THEN SubmitResult(files, <<>>, inv, 0, TRUE)
    ELSE SubmitResult(files, <<PendingListActivity(files)>>, inv, 0, FALSE)

\* approve_doc and reject_doc with what setDocumentState left and returned
deciding(ctx, doc, docId, verb, failTitle, e, r) ==
    decided(r.files,
            runWithLoading(GatewayOf(ctx), LoadingActivity(verb, "Updating " \o docId),
                           [ threw |-> FALSE,
                             value |-> IF ~r.ret
                                       THEN InfoActivity(failTitle, "Failed to update document state.")
                                       ELSE InfoActivity(verb, DocLabel(doc, docId) \o " was "
                                                                 \o ToLowerCase(verb)
                                                                 \o ". I've updated the status.") ],
                           e.gw),
            e)

\* approve_doc and reject_doc
decide(ctx, files, docId, state, verb, failTitle, e) ==
    deciding(ctx, getPendingApprovalDocumentById(files, docId), docId, verb, failTitle, e,
             setDocumentState(files, docId, state, e.write))

\* the card-submit branch for a recognised action
onSubmit(ctx, files, e) ==
    LET activity == ctx.activity
        value == ValueOf(activity)
        action == value.action
        docId == Trim(Nullish(Get(value, "docId"), ""))
        question == Trim(Nullish(Get(value, "question"), ""))
        doc == getPendingApprovalDocumentById(files, docId)
        viaLoading(loadingActivity, outcome, llm) ==
            LoadingResult(files, runWithLoading(GatewayOf(ctx), loadingActivity, outcome, e.gw), llm)
    IN  CASE action = "show_pending_approvals" ->
               viaLoading(SubmitLoadingActivity, [threw |-> FALSE, value |-> PendingListActivity(files)], 0)
          [] action = "select_pending_doc" ->
               IF doc = EmptyObj THEN TextReply(files, NotFoundText.text, e)
               ELSE viaLoading(LoadingActivity("Generating summary...", DocLabel(doc, doc.id)),
                               DocWorkOutcome(e.docText,
                                   SummaryActivity(doc, IF e.llm = "ok" THEN "summary"
                                                        ELSE "Failed to summarize: timeout")),
                               IF e.docText = "" THEN 0 ELSE 1)
          [] action = "ask_doc_question" ->
               IF ~Truthy(question) THEN TextReply(files, "Please type a question first.", e)
               ELSE IF doc = EmptyObj THEN TextReply(files, NotFoundText.text, e)
               ELSE viaLoading(LoadingActivity("Answering...", "Reading the document and generating an answer."),
                               DocWorkOutcome(e.docText,
                                   AnswerActivity(doc, question, IF e.llm = "ok" THEN "answer"
                                                                 ELSE "Failed to answer: timeout")),
                               IF e.docText = "" THEN 0 ELSE 1)
          [] action = "approve_doc" ->
               decide(ctx, files, docId, "approved", "Approved", "Couldn't approve", e)
          [] action = "reject_doc" ->
               decide(ctx, files, docId, "rejected", "Rejected", "Couldn't reject", e)
          [] action = "dismiss_pending_approvals" ->
               viaLoading(LoadingActivity("Closing...", "Got it."),
                          [threw |-> FALSE,
                           value |-> InfoActivity(IF Truthy(getUserLabel(ctx))
                                                  THEN "Thanks, " \o getUserLabel(ctx) ELSE "Thanks",
                                                  "If you need anything else, just say \"hi\".")],
                          0)
          [] action = "ack_change" -> TextReply(files, "Acknowledged. I'll track this change.", e)
          [] action = "request_change_details" ->
               TextReply(files, "Tell me what you want to change (metadata, rename, revision, etc.).", e)
          [] action = "confirm_document" -> TextReply(files, "Confirmed. I'll proceed with this document.", e)
          [] action = "reject_document" ->
               TextReply(files, "Ok - please share the correct document name or upload the correct file.", e)

IsRecognisedSubmit(activity) ==
    \E i \in 1..Len(SubmitActions) : Get(ValueOf(activity), "action") = SubmitActions[i]

\* HandlerOf with the uploaded file tested before the welcome
HandlerOfFileFirst(ctx, stor) ==
    IF IsRecognisedSubmit(ctx.activity) THEN ctx.activity.value.action
    ELSE IF Truthy(getFileNameFromActivity(ctx.activity)) THEN "file"
    ELSE IF ShowsWelcome(ctx, stor) THEN "welcome"
    ELSE IF ToLowerCase(Trim(Nullish(Get(ctx.activity, "text"), ""))) = "change"
            \/ StartsWithChange(ToLowerCase(Trim(Nullish(Get(ctx.activity, "text"), "")))) THEN "change"
    ELSE "echo"

\* the handler an event is dispatched to
HandlerOf(ctx, stor) ==
    IF IsRecognisedSubmit(ctx.activity) THEN ctx.activity.value.action
    ELSE IF ShowsWelcome(ctx, stor) THEN "welcome"
    ELSE IF Truthy(getFileNameFromActivity(ctx.activity)) THEN "file"
    ELSE IF ToLowerCase(Trim(Nullish(Get(ctx.activity, "text"), ""))) = "change"
            \/ StartsWithChange(ToLowerCase(Trim(Nullish(Get(ctx.activity, "text"), "")))) THEN "change"
    ELSE "echo"

\* onEvent with the registry upsert left to the text classification
onEventUpsertOnText(ctx, reg, stor, files, notif, t, e) ==
    LET reg1 == reg
        started == IF StartsLookup(ctx) THEN {UpsertInput(ctx)} ELSE {}
        handler == HandlerOf(ctx, stor)
    IN  IF IsRecognisedSubmit(ctx.activity)
        THEN Spread(onSubmit(ctx, files, e),
                    [ registry |-> reg1, started |-> started, welcomed |-> stor,
                      notif |-> notif, handler |-> handler ])
        ELSE IF handler = "file"
        THEN [ registry |-> reg1, started |-> started, welcomed |-> stor, files |-> files,
               notif |-> notif, handler |-> handler,
               sent |-> IF e.failAt = 1 THEN <<>>
                        ELSE <<DocumentInfoCard(getFileNameFromActivity(ctx.activity))>>,
               inv |-> NoInvocation, llm |-> 0, threw |-> e.failAt = 1 ]
        ELSE Spread(onMessage(ctx, reg, stor, files, notif, t, e.reg, e.drain, e.failAt),
                    [ files |-> files, handler |-> handler, inv |-> NoInvocation, llm |-> 0 ])

\* the whole handler of one inbound event
onEvent(ctx, reg, stor, files, notif, t, e) ==
    LET reg1 == IF HasConversation(ctx)
                THEN upsertConversationRef(reg, UpsertInput(ctx), t, e.reg)
                ELSE reg
        started == IF StartsLookup(ctx) THEN {UpsertInput(ctx)} ELSE {}
        handler == HandlerOf(ctx, stor)
    IN  IF IsRecognisedSubmit(ctx.activity)
        THEN Spread(onSubmit(ctx, files, e),
                    [ registry |-> reg1, started |-> started, welcomed |-> stor,
                      notif |-> notif, handler |-> handler ])
        ELSE IF handler = "file"
        THEN [ registry |-> reg1, started |-> started, welcomed |-> stor, files |-> files,
               notif |-> notif, handler |-> handler,
               sent |-> IF e.failAt = 1 THEN <<>>
                        ELSE <<DocumentInfoCard(getFileNameFromActivity(ctx.activity))>>,
               inv |-> NoInvocation, llm |-> 0, threw |-> e.failAt = 1 ]
        ELSE Spread(onMessage(ctx, reg, stor, files, notif, t, e.reg, e.drain, e.failAt),
                    [ files |-> files, handler |-> handler, inv |-> NoInvocation, llm |-> 0 ])

\* what the environment does during one event: the registry write, the drain's
\* write, the ctx.send that throws (0: none), the gateway's answers to the
\* placeholder protocol, the text read from the document's file, the model's
\* answer, and the write of setDocumentState
CalmGateway ==
    [ updateLoading |-> "ok", deleteTrigger |-> "ok", sendLoading |-> [id |-> "sent-1"],
      updateFinal |-> "ok", sendFinal |-> "ok", deleteStale |-> "ok" ]

CalmEnv ==
    [ reg |-> "ok", drain |-> "ok", failAt |-> 0, gw |-> CalmGateway,
      docText |-> "body text", llm |-> "ok", write |-> "ok" ]

Envs ==
    { CalmEnv,
      [CalmEnv EXCEPT !.reg = "failKeep"],
      [CalmEnv EXCEPT !.failAt = 1],
      [CalmEnv EXCEPT !.gw.updateLoading = "fail"],
      [CalmEnv EXCEPT !.gw.updateFinal = "fail"],
      [CalmEnv EXCEPT !.gw.updateFinal = "fail", !.gw.sendFinal = "fail"],
      [CalmEnv EXCEPT !.docText = ""],
      [CalmEnv EXCEPT !.llm = "fail"],
      [CalmEnv EXCEPT !.write = "failKeep"] }

\* the inbound events: plain texts with and without an uploaded file, and
\* card submits, some of which carry a text as well
EventTexts == {" Hello! ", "Change x", "what"}
EventDocIds == {"DOC-009", "DOC-404"}

EventValues ==
    { [action |-> a] : a \in {"show_pending_approvals", "dismiss_pending_approvals", "ack_change",
                              "request_change_details", "confirm_document", "reject_document",
                              "refresh"} }
    \cup { [action |-> a, docId |-> d] : a \in {"select_pending_doc", "approve_doc", "reject_doc"},
                                         d \in EventDocIds }
    \cup { [action |-> "ask_doc_question", docId |-> d, question |-> q] :
              d \in EventDocIds, q \in {"", "why?"} }

Events ==
    { [ activity |-> [from |-> from, conversation |-> [id |-> ConversationOf(from)], text |-> text],
        update |-> TRUE, delete |-> TRUE ] : from \in Senders, text \in EventTexts }
    \cup
    { [ activity |-> [ from |-> from, conversation |-> [id |-> ConversationOf(from)], text |-> text,
                       attachments |-> <<[contentType |-> "application/vnd.microsoft.teams.file.download.info",
                                          name |-> "Spec.PDF"]>> ],
        update |-> TRUE, delete |-> TRUE ] : from \in Senders, text \in {"", "Change x"} }
    \cup
    { [ activity |-> [ from |-> [aadObjectId |-> "U1", name |-> "Sam"], conversation |-> [id |-> "c1"],
                       text |-> "", value |-> v, replyToId |-> "card-1" ],
        update |-> TRUE, delete |-> TRUE ] : v \in EventValues }
    \cup
    { [ activity |-> [ from |-> [aadObjectId |-> "U1", name |-> "Sam"], conversation |-> [id |-> "c1"],
                       text |-> " Hello! ", value |-> [action |-> a], replyToId |-> "card-1" ],
        update |-> TRUE, delete |-> TRUE ] : a \in {"ack_change", "refresh"} }
    \cup
    { [ activity |-> [ from |-> [userPrincipalName |-> "A@B"], conversation |-> [id |-> "c2"],
                       text |-> "", value |-> v ],
        update |-> FALSE, delete |-> TRUE ] :
          v \in {[action |-> "show_pending_approvals"], [action |-> "approve_doc", docId |-> "DOC-009"]} }

\* the handler of the event is one that runs the placeholder protocol
UsesLoading(ctx, files) ==
    LET value == ValueOf(ctx.activity)
        action == Get(value, "action")
        known == getPendingApprovalDocumentById(files, Trim(Nullish(Get(value, "docId"), ""))) # EmptyObj
    IN  \/ action \in {"show_pending_approvals", "approve_doc", "reject_doc", "dismiss_pending_approvals"}
        \/ action = "select_pending_doc" /\ known
        \/ action = "ask_doc_question" /\ known /\ Truthy(Trim(Nullish(Get(value, "question"), "")))

\* the environment's deviation e can be met by the handler of ctx
CanMeet(ctx, files, e) ==
    LET action == Get(ValueOf(ctx.activity), "action") IN
    /\ e.gw # CalmGateway => UsesLoading(ctx, files)
    /\ (e.docText # CalmEnv.docText \/ e.llm # "ok") =>
          action \in {"select_pending_doc", "ask_doc_question"} /\ UsesLoading(ctx, files)
    /\ e.write # "ok" =>
          /\ action \in {"approve_doc", "reject_doc"}
          /\ FindIndex(getAllDocuments(files), Trim(Nullish(Get(ValueOf(ctx.activity), "docId"), ""))) # 0
    /\ e.failAt = 1 =>
          action \notin {"show_pending_approvals", "dismiss_pending_approvals"} /\
          (action \in {"select_pending_doc", "ask_doc_question"} => ~UsesLoading(ctx, files))

InitEvents ==
    /\ notifFile = NotifMissing
    /\ docFiles = DocFilesAt(DocsJson([documents |-> <<SeedCurrent>>]), DocsMissing, DocsMissing)
    /\ cwdIsRepoRoot = TRUE
    /\ registry = EmptyRegistry
    /\ welcomed = {}
    /\ lookups = {}
    /\ loading = NoInvocation
    /\ calls = NoCalls
    /\ now = MaxClock
    /\ last = NoCall

\* the document id a card submit carries, as the handlers read it
EventDocId(ctx) == Trim(Nullish(Get(ValueOf(ctx.activity), "docId"), ""))

\* the state listAll reports for the record with this id, "none" without one
StateOfDoc(files, id) ==
    IF FindIndex(getAllDocuments(files), id) = 0 THEN "none"
    ELSE getAllDocuments(files)[FindIndex(getAllDocuments(files), id)].state

\* an inbound event, handled to its end
OnEvent ==
    \E ctx \in Events, e \in Envs, t \in ClockReads :
      /\ CanMeet(ctx, docFiles, e)
      /\ \E r \in {onEvent(ctx, registry, welcomed, docFiles, notifFile, t, e)} :
        /\ registry' = r.registry
        /\ welcomed' = r.welcomed
        /\ docFiles' = r.files
        /\ notifFile' = r.notif
        /\ lookups' = lookups \cup r.started
        /\ now' = t
        /\ last' = [ op |-> "event", arg |-> ctx,
                     ret |-> [handler |-> <<r.handler>>, sent |-> r.sent, inv |-> r.inv, llm |-> <<r.llm>>],
                     fault |-> r.threw, rep |-> FALSE,
                     prevRet |-> [ welcomed |-> ctx.activity.conversation.id \in welcomed,
                                   known |-> \/ registry.byAadObjectId # EmptyObj
                                             \/ registry.byEmail # EmptyObj,
                                   state |-> StateOfDoc(docFiles, EventDocId(ctx)) ],
                     env |-> e ]
        /\ UNCHANGED <<cwdIsRepoRoot, loading, calls>>

SpecEvents == InitEvents /\ [][OnEvent]_vars

\* ------------------------------------------------- the filename parser

\* Strings are read one character at a time; positions count from 1, so the
\* index i of the source is the position i + 1 here and 0 stands for -1.
CharAt(s, i) == SubSeq(s, i, i)

WhiteSpace == {" "}
DigitChars == {"0", "1", "2", "3", "4", "5", "6", "7", "8", "9"}
LowerChars == "abcdefghijklmnopqrstuvwxyz"
UpperChars == "ABCDEFGHIJKLMNOPQRSTUVWXYZ"
LetterChars == {CharAt(LowerChars, i) : i \in 1..26} \cup {CharAt(UpperChars, i) : i \in 1..26}
AlnumChars == LetterChars \cup DigitChars

MinOf(S) == CHOOSE m \in S : \A x \in S : m <= x

upperChar(c) ==
    IF \E i \in 1..26 : CharAt(LowerChars, i) = c
    THEN CharAt(UpperChars, CHOOSE i \in 1..26 : CharAt(LowerChars, i) = c)
    ELSE c

lowerChar(c) ==
    IF \E i \in 1..26 : CharAt(UpperChars, i) = c
    THEN CharAt(LowerChars, CHOOSE i \in 1..26 : CharAt(UpperChars, i) = c)
    ELSE c

\* s.toUpperCase()
RECURSIVE toUpperCase(_)
toUpperCase(s) == IF s = "" THEN "" ELSE upperChar(Head(s)) \o toUpperCase(Tail(s))

RECURSIVE toLowerCase(_)
toLowerCase(s) == IF s = "" THEN "" ELSE lowerChar(Head(s)) \o toLowerCase(Tail(s))

\* the position after the longest run of characters of class that starts at i
RECURSIVE RunEnd(_, _, _)
RunEnd(s, i, class) ==
    IF i <= Len(s) /\ CharAt(s, i) \in class THEN RunEnd(s, i + 1, class) ELSE i

\* the position after the longest run of characters outside class
RECURSIVE RunEndOutside(_, _, _)
RunEndOutside(s, i, class) ==
    IF i <= Len(s) /\ CharAt(s, i) \notin class THEN RunEndOutside(s, i + 1, class) ELSE i

\* the position before the longest run of characters of class that ends at i
RECURSIVE RunStart(_, _, _)
RunStart(s, i, class) ==
    IF i >= 1 /\ CharAt(s, i) \in class THEN RunStart(s, i - 1, class) ELSE i

\* s.replace(/[class]+$/, "")
stripTrailing(s, class) == SubSeq(s, 1, RunStart(s, Len(s), class))

\* s.trim()
trim(s) ==
    LET a == RunEnd(s, 1, WhiteSpace)
        b == RunStart(s, Len(s), WhiteSpace)
    IN  IF a > b THEN "" ELSE SubSeq(s, a, b)

\* /^copy of\s+/i.test(s)
HasCopyPrefix(s) ==
    /\ Len(s) >= 8
    /\ toLowerCase(SubSeq(s, 1, 7)) = "copy of"
    /\ CharAt(s, 8) \in WhiteSpace

\* s.replace(/^Copy of\s+/i, "")
stripCopyOf(s) ==
    IF HasCopyPrefix(s) THEN SubSeq(s, RunEnd(s, 8, WhiteSpace), Len(s)) ELSE s

\* s.lastIndexOf(c), 0 when c does not occur
lastIndexOf(s, c) ==
    LET I == {i \in 1..Len(s) : CharAt(s, i) = c}
    IN  IF I = {} THEN 0 ELSE MaxOf(I)

\* s.indexOf(c, from), 0 when c does not occur from there on
indexOf(s, c, from) ==
    LET I == {i \in from..Len(s) : CharAt(s, i) = c}
    IN  IF I = {} THEN 0 ELSE MinOf(I)

\* s.replace(/\.[^.]*$/, "")
removeExtension(s) ==
    IF lastIndexOf(s, ".") = 0 THEN s ELSE SubSeq(s, 1, lastIndexOf(s, ".") - 1)

\* /\s*-\s*\d+\s*$/ matches s from position i on
MatchesVersionAt(s, i) ==
    LET a == RunEnd(s, i, WhiteSpace)
        b == RunEnd(s, a + 1, WhiteSpace)
        c == RunEnd(s, b, DigitChars)
    IN  /\ a <= Len(s)
        /\ CharAt(s, a) = "-"
        /\ c > b
        /\ RunEnd(s, c, WhiteSpace) = Len(s) + 1

\* s.replace(/\s*-\s*\d+\s*$/, "")
stripVersion(s) ==
    LET I == {i \in 1..Len(s) : MatchesVersionAt(s, i)}
    IN  IF I = {} THEN s ELSE SubSeq(s, 1, MinOf(I) - 1)

\* [...s.matchAll(/\(([^)]+)\)/g)] and [...s.matchAll(/\[([^\]]+)\]/g)], from
\* position from on: a group opens at i when the first close after it leaves
\* at least one character between them
RECURSIVE matchGroups(_, _, _, _)
matchGroups(s, from, open, close) ==
    LET starts == {i \in from..Len(s) :
                     CharAt(s, i) = open /\ indexOf(s, close, i + 1) >= i + 2}
    IN  IF starts = {} THEN <<>>
        ELSE LET i == MinOf(starts)
                 j == indexOf(s, close, i + 1)
             IN  <<[index |-> i, content |-> SubSeq(s, i + 1, j - 1)]>>
                   \o matchGroups(s, j + 1, open, close)

\* matches.sort((a, b) => a.index - b.index)
RECURSIVE sortByIndex(_)
sortByIndex(ms) ==
    IF ms = <<>> THEN <<>>
    ELSE LET k == CHOOSE k \in 1..Len(ms) : \A j \in 1..Len(ms) : ms[k].index <= ms[j].index
         IN  <<ms[k]>> \o sortByIndex(SubSeq(ms, 1, k - 1) \o SubSeq(ms, k + 1, Len(ms)))

\* s.split(/[class]+/).filter(Boolean), from position i on
RECURSIVE tokensOf(_, _, _)
tokensOf(s, i, class) ==
    LET a == RunEnd(s, i, class)
        b == RunEndOutside(s, a, class)
    IN  IF a > Len(s) THEN <<>> ELSE <<SubSeq(s, a, b - 1)>> \o tokensOf(s, b, class)

\* /^[class]+$/.test(s)
IsAllOf(s, class) == Len(s) > 0 /\ \A i \in 1..Len(s) : CharAt(s, i) \in class

isIFSMetadataPattern(str) ==
    LET tokens == tokensOf(str, 1, {"-", "_"} \cup WhiteSpace)
        n == Len(tokens)
    IN  IF n < 4 THEN FALSE
        ELSE /\ IsAllOf(tokens[n - 2], DigitChars)
             /\ IsAllOf(tokens[n - 1], DigitChars)
             /\ IsAllOf(tokens[n], AlnumChars)

\* the loop from the last group to the first: the group it stops at, if any
metadataMatchOf(allBracketMatches) ==
    LET Q == {i \in 1..Len(allBracketMatches) : isIFSMetadataPattern(allBracketMatches[i].content)}
    IN  IF Q = {} THEN <<>> ELSE <<allBracketMatches[MaxOf(Q)]>>

\* the position of the close that /\(.+?\)|\[.+?\]/ finds for a group
\* opening at i, 0 when position i opens none
shortGroupEnd(s, i) ==
    CASE CharAt(s, i) = "(" -> indexOf(s, ")", i + 2)
      [] CharAt(s, i) = "[" -> indexOf(s, "]", i + 2)
      [] OTHER -> 0

\* s.replace(/\(.+?\)|\[.+?\]/g, ""), from position from on
RECURSIVE removeGroups(_, _)
removeGroups(s, from) ==
    LET starts == {i \in from..Len(s) : shortGroupEnd(s, i) > 0}
    IN  IF starts = {} THEN SubSeq(s, from, Len(s))
        ELSE SubSeq(s, from, MinOf(starts) - 1) \o removeGroups(s, shortGroupEnd(s, MinOf(starts)) + 1)

\* the title left of the metadata group at position index
titleBefore(withoutVersion, index) ==
    LET sliced == trim(SubSeq(withoutVersion, 1, index - 1))
        stripped == trim(stripTrailing(sliced, WhiteSpace \cup {"(", ")", "[", "]"}))
    IN  trim(removeGroups(stripped, 1))

\* a || b on strings
OrString(a, b) == IF a = "" THEN b ELSE a

ParsedDocumentInfo(title, docClass, docNo, docSheet, docRev, extension, isIFSFormat, filename) ==
    [ title |-> title,
      docClass |-> docClass,
      docNo |-> docNo,
      docSheet |-> docSheet,
      docRev |-> docRev,
      fileExtension |-> IF extension # "" THEN toUpperCase(extension) ELSE "",
      isIFSFormat |-> isIFSFormat,
      isCopy |-> HasCopyPrefix(filename) ]

\* \s*[-_]\s* from position i: the position after it, 0 when it does not match
sepEnd(s, i) ==
    LET a == RunEnd(s, i, WhiteSpace)
    IN  IF a <= Len(s) /\ CharAt(s, a) \in {"-", "_"} THEN RunEnd(s, a + 1, WhiteSpace) ELSE 0

\* what follows the class group in altPattern: three times a separator and a
\* group, the groups being digits, digits and letters or digits
AltRest ==
    << [sep |-> TRUE, class |-> {}], [sep |-> FALSE, class |-> DigitChars],
       [sep |-> TRUE, class |-> {}], [sep |-> FALSE, class |-> DigitChars],
       [sep |-> TRUE, class |-> {}], [sep |-> FALSE, class |-> AlnumChars] >>

\* the groups that parts match from position i on, as <<groups>>; <<>> when
\* parts do not match there
RECURSIVE matchParts(_, _, _)
matchParts(s, i, parts) ==
    CASE parts = <<>> -> << <<>> >>
      [] parts # <<>> /\ Head(parts).sep ->
           IF sepEnd(s, i) = 0 THEN <<>> ELSE matchParts(s, sepEnd(s, i), Tail(parts))
      [] OTHER ->
           LET rest == matchParts(s, RunEnd(s, i, Head(parts).class), Tail(parts))
           IN  IF RunEnd(s, i, Head(parts).class) = i \/ rest = <<>> THEN <<>>
               ELSE << <<SubSeq(s, i, RunEnd(s, i, Head(parts).class) - 1)>> \o rest[1] >>

\* \s*[-_]\s*(\d+)\s*[-_]\s*(\d+)\s*[-_]\s*([A-Z0-9]+) from position e, where
\* the class group ended: its three groups, <<>> when it does not match
altTail(s, e) == matchParts(s, e, AltRest)

\* the ends the class group ([A-Z0-9-]+) can take from position i with the
\* rest of altPattern matching after it
altClassEnds(s, i) ==
    {e \in (i + 1)..RunEnd(s, i, AlnumChars \cup {"-"}) : altTail(s, e) # <<>>}

\* the match of altPattern whose class group runs from position i to e
altGroups(s, i, e, groups) ==
    [ index |-> i, docClass |-> SubSeq(s, i, e - 1),
      docNo |-> groups[1], docSheet |-> groups[2], docRev |-> groups[3] ]

\* the match of altPattern at position i: the longest class group there
altMatchAt(s, i, e) == altGroups(s, i, e, altTail(s, e)[1])

\* s.match(altPattern): the first position that matches; <<>> when nothing
\* matches
altMatchOf(s) ==
    LET starts == {i \in 1..Len(s) : altClassEnds(s, i) # {}}
    IN  IF starts = {} THEN <<>>
        ELSE <<altMatchAt(s, MinOf(starts), MaxOf(altClassEnds(s, MinOf(starts))))>>

\* /\s+-\s+/ from position i: the position after it, 0 when it does not match
hyphenEnd(s, i) ==
    LET a == RunEnd(s, i, WhiteSpace)
        b == RunEnd(s, a + 1, WhiteSpace)
    IN  IF a > i /\ a <= Len(s) /\ CharAt(s, a) = "-" /\ b > a + 1 THEN b ELSE 0

\* s.split(/\s+-\s+/), from position from on
RECURSIVE splitOnHyphen(_, _)
splitOnHyphen(s, from) ==
    LET starts == {i \in from..Len(s) : hyphenEnd(s, i) > 0}
    IN  IF starts = {} THEN <<SubSeq(s, from, Len(s))>>
        ELSE <<SubSeq(s, from, MinOf(starts) - 1)>> \o splitOnHyphen(s, hyphenEnd(s, MinOf(starts)))

\* tokens.map((t) => t.trim()).filter(Boolean)
RECURSIVE trimmedNonEmpty(_)
trimmedNonEmpty(tokens) ==
    IF tokens = <<>> THEN <<>>
    ELSE (IF trim(Head(tokens)) = "" THEN <<>> ELSE <<trim(Head(tokens))>>)
           \o trimmedNonEmpty(Tail(tokens))

\* tokens.join(" - ")
RECURSIVE joinTokens(_)
joinTokens(tokens) ==
    CASE tokens = <<>> -> ""
      [] Len(tokens) = 1 -> tokens[1]
      [] OTHER -> tokens[1] \o " - " \o joinTokens(Tail(tokens))

\* parseMetadataTokens with the revision left as it was written
parseMetadataTokensKeepingCase(metadataString, titlePart, nameWithoutExt, extension, filename) ==
    LET tokens == trimmedNonEmpty(splitOnHyphen(metadataString, 1))
        n == Len(tokens)
    IN  IF n < 4
        THEN ParsedDocumentInfo(OrString(titlePart, nameWithoutExt), "", "", "", "", extension, FALSE, filename)
        ELSE ParsedDocumentInfo(OrString(titlePart, "Untitled"),
                                trim(trim(joinTokens(SubSeq(tokens, 1, n - 3)))),
                                trim(tokens[n - 2]), trim(tokens[n - 1]),
                                trim(tokens[n]),
                                extension, TRUE, filename)

parseMetadataTokens(metadataString, titlePart, nameWithoutExt, extension, filename) ==
    LET tokens == trimmedNonEmpty(splitOnHyphen(metadataString, 1))
        n == Len(tokens)
    IN  IF n < 4
        THEN ParsedDocumentInfo(OrString(titlePart, nameWithoutExt), "", "", "", "", extension, FALSE, filename)
        ELSE ParsedDocumentInfo(OrString(titlePart, "Untitled"),
                                trim(trim(joinTokens(SubSeq(tokens, 1, n - 3)))),
                                trim(tokens[n - 2]), trim(tokens[n - 1]),
                                toUpperCase(trim(tokens[n])),
                                extension, TRUE, filename)

\* parseDocumentFilename from line 73 on, with the bracket group and the
\* match of altPattern it finds
parseMatched(filename, cleanFileName, extension, nameWithoutExt, withoutVersion, metadataMatch, altMatch) ==
    IF metadataMatch # <<>>
    THEN parseMetadataTokens(metadataMatch[1].content,
                             titleBefore(withoutVersion, metadataMatch[1].index),
                             nameWithoutExt, extension, filename)
    ELSE IF altMatch # <<>>
    THEN ParsedDocumentInfo(
             OrString(trim(SubSeq(withoutVersion, 1, altMatch[1].index - 1)),
                      removeExtension(cleanFileName)),
             trim(altMatch[1].docClass), trim(altMatch[1].docNo), trim(altMatch[1].docSheet),
             toUpperCase(trim(altMatch[1].docRev)),
             extension, TRUE, filename)
    ELSE ParsedDocumentInfo(OrString(withoutVersion, nameWithoutExt),
                            "", "", "", "", extension, FALSE, filename)

\* parseDocumentFilename from line 64 on
parseSplit(filename, cleanFileName, extension, nameWithoutExt, withoutVersion) ==
    parseMatched(filename, cleanFileName, extension, nameWithoutExt, withoutVersion,
                 metadataMatchOf(sortByIndex(matchGroups(withoutVersion, 1, "(", ")")
                                               \o matchGroups(withoutVersion, 1, "[", "]"))),
                 altMatchOf(withoutVersion))

\* parseDocumentFilename from line 59 on
parseClean(filename, cleanFileName, dot) ==
    parseSplit(filename, cleanFileName,
               IF dot > 0 THEN SubSeq(cleanFileName, dot, Len(cleanFileName)) ELSE "",
               IF dot > 0 THEN SubSeq(cleanFileName, 1, dot - 1) ELSE cleanFileName,
               stripVersion(IF dot > 0 THEN SubSeq(cleanFileName, 1, dot - 1) ELSE cleanFileName))

\* parseDocumentFilename: <<>> is null, <<r>> the result r
parseDocumentFilename(filename) ==
    IF filename = "" THEN <<>>
    ELSE <<parseClean(filename, trim(stripCopyOf(filename)),
                      lastIndexOf(trim(stripCopyOf(filename)), "."))>>

\* formatDocumentName's layout, with the version suffix and the extension of
\* the file, after the copy marker if the name has one:
\* "T (C - N - S - R) - 1.ext"
StructuredName(p) ==
    p.copy \o p.title \o " (" \o p.docClass \o " - " \o p.docNo \o " - " \o p.docSheet
            \o " - " \o p.docRev \o ") - 1." \o p.ext

\* the parts of the structured names the parser is given
NameParts ==
    [ copy : {"", "Copy of "},
      title : {"Design Spec", "Plan", "Q3 - 7", "a.b"},
      docClass : {"01-TEST", "ISU_YES_N", "A"},
      docNo : {"1028340", "007"},
      docSheet : {"1", "12"},
      docRev : {"A1", "b2", "7"},
      ext : {"docx", "Pdf"} ]

\* names that do not follow the layout
OtherNames ==
    { "",
      "notes.txt",
      "notes",
      "Plan - 3.docx",
      "Copy of notes.txt",
      " (A - 1 - 2 - B) - 1.docx",
      "Plan (A - 1 - 2) - 1.docx",
      "Plan (draft)(A - 1 - 2 - B) - 1.docx",
      "Plan (draft) (A - 1 - 2 - B) - 1.docx",
      "Plan [A - 1 - 2 - B] - 1.docx",
      "Plan (A - 1 - 2 - B) (final) - 1.docx",
      "Plan (A-1-2-B) - 1.docx",
      "Plan (A - B - 1_2 - C) - 1.docx",
      "Plan (X - Y Z - 1 2 - 3) - 1.docx",
      "Plan (A - B - 1 - 2-c) - 1.docx",
      "Plan (A  -  B - 1 - 2 - c) - 1.docx",
      "Plan 01-TEST - 12 - 3 - a1.docx",
      "Plan 01-TEST_12_3_a1 - 2.txt",
      "01-TEST-12-3-A.pdf",
      "Plan () - 1.docx",
      "Plan (A - 1 - 2 - B" }

ParseInputs ==
    { [filename |-> StructuredName(p), parts |-> <<p>>] : p \in NameParts }
      \cup { [filename |-> f, parts |-> <<>>] : f \in OtherNames }

InitParse ==
    /\ notifFile = NotifMissing
    /\ docFiles = NoDocFiles
    /\ cwdIsRepoRoot = TRUE
    /\ registry = EmptyRegistry
    /\ welcomed = {}
    /\ lookups = {}
    /\ loading = NoInvocation
    /\ calls = NoCalls
    /\ now = MaxClock
    /\ \E input \in ParseInputs :
          last = [ op |-> "input", arg |-> input, ret |-> <<>>,
                   fault |-> FALSE, rep |-> FALSE, prevRet |-> <<>> ]

\* parseDocumentFilename(filename)
ParseFilename ==
    /\ last.op = "input"
    /\ last' = [last EXCEPT !.op = "parse", !.ret = parseDocumentFilename(last.arg.filename)]
    /\ UNCHANGED <<notifFile, docFiles, cwdIsRepoRoot, registry, welcomed, lookups, loading, now, calls>>

SpecParse == InitParse /\ [][ParseFilename]_vars

\* ------------------------------- the queue, one await point at a time

\* Each of enqueue and drainFor awaits readFile, works on what it read, and
\* awaits writeFile; between the two awaits the event loop runs other calls.
\* A call that has read and not yet written is an element of calls.

\* at most this many calls are between their read and their write
MaxCalls == 2

\* s without its i-th element
RemoveAt(s, i) == SubSeq(s, 1, i - 1) \o SubSeq(s, i + 1, Len(s))

\* enqueue up to its readFile: current.notifications
enqueueRead(file) == IF file.kind = "list" THEN file.list ELSE <<>>

\* enqueue from its readFile on: the entry is unshifted onto what was read
enqueueWrite(file, current, doc, target, t, outcome) ==
    [ file |-> WriteNotif(file, SubSeq(<<NotificationEntry(doc, target, t)>> \o current, 1,
                                       Min(NotificationCap, Len(current) + 1)), outcome),
      threw |-> outcome # "ok",
      entry |-> NotificationEntry(doc, target, t) ]

\* drainFor up to its readFile: the read threw, or the list that was parsed
drainRead(file) ==
    [ threw |-> file.kind \in {"missing", "corrupt"},
      list |-> IF file.kind = "list" THEN file.list ELSE <<>> ]

\* drainFor from its readFile on: the entries of what was read are split
drainWrite(file, list, user, outcome) ==
    IF outcome = "ok"
    THEN [file |-> NotifList(NotMatching(list, user)), ret |-> Matching(list, user), fault |-> FALSE]
    ELSE [file |-> WriteNotif(file, NotMatching(list, user), outcome), ret |-> <<>>, fault |-> TRUE]

\* the records injected, one enqueue each
StepDocs ==
    { NewDocument([localPath |-> "docs/spec.txt", Title |-> "Spec v2"], id, "T0") :
        id \in {"DOC-001", "DOC-002"} }

StepTargets == {TargetArg([aadObjectId |-> "U1"]), TargetArg([email |-> "A@B"])}

StepRequesters == {[aadObjectId |-> "u1"], [email |-> "a@b"]}

\* the history of the run: the entries enqueue has written, the entries
\* drains have returned, whether one of them was returned a second time, the
\* records an enqueue was started for, and whether two enqueues were ever
\* between their read and their write together
NoHistory == [enqueued |-> {}, returned |-> {}, twice |-> FALSE, started |-> {}, overlapped |-> FALSE]

StepCall(op, arg, ret, history) ==
    Spread([op |-> op, arg |-> arg, ret |-> ret, fault |-> FALSE, rep |-> FALSE, prevRet |-> <<>>],
           history)

HistoryOf(call) ==
    [ enqueued |-> call.enqueued, returned |-> call.returned, twice |-> call.twice,
      started |-> call.started, overlapped |-> call.overlapped ]

InitQueueSteps ==
    /\ notifFile \in {NotifMissing, NotifList(<<>>)}
    /\ docFiles = NoDocFiles
    /\ cwdIsRepoRoot = TRUE
    /\ registry = EmptyRegistry
    /\ welcomed = {}
    /\ lookups = {}
    /\ loading = NoInvocation
    /\ calls = NoCalls
    /\ now = MaxClock
    /\ last = StepCall("none", EmptyObj, <<>>, NoHistory)

\* an enqueue starts and reads the file
EnqueueReads ==
    \E doc \in StepDocs, target \in StepTargets :
        /\ Len(calls) < MaxCalls
        /\ doc.id \notin last.started
        /\ calls' = Append(calls, [op |-> "enqueue", doc |-> doc, target |-> target,
                                   current |-> enqueueRead(notifFile)])
        /\ last' = StepCall("enqueueRead", [doc |-> doc, target |-> target], <<>>,
                            [HistoryOf(last) EXCEPT
                                !.started = @ \cup {doc.id},
                                !.overlapped = @ \/ \E i \in 1..Len(calls) : calls[i].op = "enqueue"])
        /\ UNCHANGED <<notifFile, docFiles, cwdIsRepoRoot, registry, welcomed, lookups, loading, now>>

\* an enqueue that has read writes the file and returns
EnqueueWrites ==
    \E i \in 1..Len(calls) :
        /\ calls[i].op = "enqueue"
        /\ \E r \in {enqueueWrite(notifFile, calls[i].current, calls[i].doc, calls[i].target, now, "ok")} :
           /\ notifFile' = r.file
           /\ calls' = RemoveAt(calls, i)
           /\ last' = StepCall("enqueueWrite", [doc |-> calls[i].doc, target |-> calls[i].target],
                               <<r.entry>>,
                               [HistoryOf(last) EXCEPT !.enqueued = @ \cup {r.entry}])
        /\ UNCHANGED <<docFiles, cwdIsRepoRoot, registry, welcomed, lookups, loading, now>>

\* a drain starts and reads the file; a read that throws ends the call
DrainReads ==
    \E user \in StepRequesters :
        /\ Len(calls) < MaxCalls
        /\ calls' = IF drainRead(notifFile).threw THEN calls
                    ELSE Append(calls, [op |-> "drain", user |-> user, list |-> drainRead(notifFile).list])
        /\ last' = StepCall("drainRead", user, <<>>, HistoryOf(last))
        /\ UNCHANGED <<notifFile, docFiles, cwdIsRepoRoot, registry, welcomed, lookups, loading, now>>

\* a drain that has read writes the file and returns
DrainWrites ==
    \E i \in 1..Len(calls) :
        /\ calls[i].op = "drain"
        /\ \E r \in {drainWrite(notifFile, calls[i].list, calls[i].user, "ok")} :
           /\ notifFile' = r.file
           /\ calls' = RemoveAt(calls, i)
           /\ last' = StepCall("drainWrite", calls[i].user, r.ret,
                               [HistoryOf(last) EXCEPT
                                   !.returned = @ \cup {r.ret[k] : k \in 1..Len(r.ret)},
                                   !.twice = @ \/ \E k \in 1..Len(r.ret) : r.ret[k] \in last.returned])
        /\ UNCHANGED <<docFiles, cwdIsRepoRoot, registry, welcomed, lookups, loading, now>>

NextQueueSteps == EnqueueReads \/ EnqueueWrites \/ DrainReads \/ DrainWrites

SpecQueueSteps == InitQueueSteps /\ [][NextQueueSteps]_vars

\* ------------------------ the document store, one await point at a time

\* addDocument awaits readDocumentsFile and then writeDocumentsFile; setState
\* awaits the path and the records and then writeFile. What a call has read
\* is kept in calls until the call writes.

\* addDocumentToApprovalList from its read on: the record is numbered after
\* the records that were read and pushed onto them
addWrite(files, store, input, t, outcome) ==
    [ files |-> [files EXCEPT !["cwd"] =
                    WriteDocs(files["cwd"],
                              Append(store, NewDocument(input, nextId(store), "T" \o ToString(t))),
                              outcome)],
      doc |-> NewDocument(input, nextId(store), "T" \o ToString(t)),
      threw |-> outcome # "ok" ]

\* setDocumentState up to its write: the path, the records and the index
setStateRead(files, id) ==
    [ filePath |-> resolveDocumentsFilePath(files),
      docs |-> getAllDocuments(files),
      idx |-> FindIndex(getAllDocuments(files), id) ]

\* setDocumentState from its read on
setStateWrite(files, filePath, docs, idx, state, outcome) ==
    [ files |-> [files EXCEPT ![filePath] =
                    WriteDocs(files[filePath],
                              [docs EXCEPT ![idx] = Spread(docs[idx], [state |-> state])], outcome)],
      ret |-> outcome = "ok" ]

\* the bodies injected, one addDocument each
StepInputs ==
    { [localPath |-> "docs/spec.txt", Title |-> "Spec v2"],
      [localPath |-> "docs/a.bin", Title |-> "Blob", OriginalFileName |-> "Spec.PDF"] }

\* the ids and states of the approve and reject submits
StepIds == {"DOC-009", "DOC-010", "DOC-404"}
StepStates == {"approved", "rejected"}

\* the history of the run: the ids addDocument returned and whether one was
\* returned twice, the state the last setState of each id has set, the bodies
\* an addDocument was started for, and whether two setState calls were ever
\* between their read and their write together
NoStoreHistory ==
    [added |-> {}, dup |-> FALSE, decided |-> EmptyObj, started |-> {}, overlapped |-> FALSE]

StoreHistoryOf(call) ==
    [ added |-> call.added, dup |-> call.dup, decided |-> call.decided,
      started |-> call.started, overlapped |-> call.overlapped ]

InitStoreSteps ==
    /\ notifFile = NotifMissing
    /\ docFiles \in { NoDocFiles,
                      DocFilesAt(DocsJson([documents |-> <<SeedCurrent>>]), DocsMissing, DocsMissing) }
    /\ cwdIsRepoRoot = TRUE
    /\ registry = EmptyRegistry
    /\ welcomed = {}
    /\ lookups = {}
    /\ loading = NoInvocation
    /\ calls = NoCalls
    /\ now = MaxClock
    /\ last = StepCall("none", EmptyObj, <<>>, NoStoreHistory)

\* an addDocument starts and reads the file
AddReads ==
    \E input \in StepInputs :
        /\ Len(calls) < MaxCalls
        /\ input.Title \notin last.started
        /\ calls' = Append(calls, [op |-> "add", input |-> input,
                                   store |-> readDocumentsFile(docFiles["cwd"])])
        /\ last' = StepCall("addRead", input, <<>>,
                            [StoreHistoryOf(last) EXCEPT !.started = @ \cup {input.Title}])
        /\ UNCHANGED <<notifFile, docFiles, cwdIsRepoRoot, registry, welcomed, lookups, loading, now>>

\* an addDocument that has read writes the file and returns its record
AddWrites ==
    \E i \in 1..Len(calls) :
        /\ calls[i].op = "add"
        /\ \E r \in {addWrite(docFiles, calls[i].store, calls[i].input, now, "ok")} :
           /\ docFiles' = r.files
           /\ calls' = RemoveAt(calls, i)
           /\ last' = StepCall("addWrite", calls[i].input, <<r.doc>>,
                               [StoreHistoryOf(last) EXCEPT
                                   !.added = @ \cup {r.doc.id},
                                   !.dup = @ \/ r.doc.id \in last.added])
        /\ UNCHANGED <<notifFile, cwdIsRepoRoot, registry, welcomed, lookups, loading, now>>

\* a setState starts and reads; without a record of the id it returns false
SetStateReads ==
    \E id \in StepIds, state \in StepStates :
        /\ Len(calls) < MaxCalls
        /\ \E r \in {setStateRead(docFiles, id)} :
           /\ calls' = IF r.idx = 0 THEN calls
                       ELSE Append(calls, [op |-> "setState", id |-> id, state |-> state,
                                           filePath |-> r.filePath, docs |-> r.docs, idx |-> r.idx])
           /\ last' = StepCall("setStateRead", [id |-> id, state |-> state], <<r.idx # 0>>,
                               [StoreHistoryOf(last) EXCEPT
                                   !.overlapped = @ \/ ( /\ r.idx # 0
                                                         /\ \E i \in 1..Len(calls) : calls[i].op = "setState" )])
        /\ UNCHANGED <<notifFile, docFiles, cwdIsRepoRoot, registry, welcomed, lookups, loading, now>>

\* a setState that has read writes the file and returns true
SetStateWrites ==
    \E i \in 1..Len(calls) :
        /\ calls[i].op = "setState"
        /\ \E r \in {setStateWrite(docFiles, calls[i].filePath, calls[i].docs, calls[i].idx,
                                   calls[i].state, "ok")} :
           /\ docFiles' = r.files
           /\ calls' = RemoveAt(calls, i)
           /\ last' = StepCall("setStateWrite", [id |-> calls[i].id, state |-> calls[i].state], <<r.ret>>,
                               [StoreHistoryOf(last) EXCEPT
                                   !.decided = Put(@, calls[i].id, calls[i].state)])
        /\ UNCHANGED <<notifFile, cwdIsRepoRoot, registry, welcomed, lookups, loading, now>>

NextStoreSteps == AddReads \/ AddWrites \/ SetStateReads \/ SetStateWrites

SpecStoreSteps == InitStoreSteps /\ [][NextStoreSteps]_vars

\* --------------------------------------------------------------- claims

Range(s) == {s[i] : i \in 1..Len(s)}

\* s is t with some elements left out, the rest in t's order
RECURSIVE IsSubSeq(_, _)
IsSubSeq(s, t) ==
    IF s = <<>> THEN TRUE
    ELSE IF t = <<>> THEN FALSE
    ELSE IF Head(s) = Head(t) THEN IsSubSeq(Tail(s), Tail(t))
    ELSE IsSubSeq(s, Tail(t))

\* C1: drainFor is at-most-once. A drain that completes returns the entries
\* of the queue that match the requester; a second drain for the same
\* identity right after it returns the empty list, and no entry is in the
\* results of both.
C1_DrainAtMostOnce ==
    [][ (last'.op = "drain" /\ ~last'.fault) =>
          /\ last'.ret = Matching(notifFile.list, last'.arg)
          /\ (last.op = "drain" /\ last.arg = last'.arg /\ ~last.fault) =>
                /\ last'.ret = <<>>
                /\ Range(last.ret) \cap Range(last'.ret) = {} ]_vars

\* C1 witness: a second drain for the same identity, after a first one that
\* returned an entry
C1_Witness ==
    /\ last.op = "drain" /\ last.rep /\ ~last.fault
    /\ last.prevRet # <<>>
    /\ last.ret = <<>>

\* an enqueue call that names no target: no target argument, or a target
\* with neither identity nor email, for a record no email can be derived from
IsUntargetedCall(c) ==
    /\ c.op = "enqueue" /\ ~c.fault
    /\ ~c.arg.target.given \/ DOMAIN c.arg.target.obj = {}
    /\ \A k \in {"ResponsiblePerson", "ModifiedBy", "CreatedBy", "OriginalCreator"} :
          tryExtractEmail(Get(c.arg.doc, k)) = UNDEF

\* C2: a notification enqueued with no target is returned by the next
\* drainFor, whoever the requester is.
C2_BroadcastDelivered ==
    [][ (IsUntargetedCall(last) /\ last'.op = "drain" /\ ~last'.fault) =>
          last.ret \in Range(last'.ret) ]_vars

\* a queue entry whose target holds an email and no identity
IsEmailOnly(n) == "target" \in DOMAIN n /\ DOMAIN n.target = {"email"}

\* the requester's email equals e, ignoring case
SameEmail(user, e) == Truthy(Get(user, "email")) /\ ToLowerCase(user.email) = ToLowerCase(e)

\* C3: a notification enqueued with target email E and no target identity is
\* stored with that email as its only key; a drain returns it exactly when
\* the requester's email equals E ignoring case, and leaves it in the queue
\* otherwise.
C3_EmailTargetExact ==
    [][ /\ ( /\ last'.op = "enqueue" /\ ~last'.fault
             /\ Truthy(OptGet(last'.arg.target, "email"))
             /\ ~Truthy(OptTrim(OptGet(last'.arg.target, "aadObjectId"))) )
           => /\ notifFile'.list[1].target = [email |-> last'.arg.target.obj.email]
              /\ notifFile'.list[1] = last'.ret
        /\ (last'.op = "drain" /\ ~last'.fault) =>
              \A n \in Range(notifFile.list) :
                 IsEmailOnly(n) =>
                    IF SameEmail(last'.arg, n.target.email)
                    THEN n \in Range(last'.ret) /\ n \notin Range(notifFile'.list)
                    ELSE n \notin Range(last'.ret) /\ n \in Range(notifFile'.list) ]_vars

\* C3 witness: an entry for A@B is in the queue after a drain by a requester
\* with another email, and one was returned to a requester with a@b
C3_WitnessKept ==
    /\ last.op = "drain" /\ ~last.fault /\ last.arg = [email |-> "c@d"]
    /\ \E n \in Range(notifFile.list) : IsEmailOnly(n) /\ n.target.email = "A@B"

C3_Witness ==
    /\ last.op = "drain" /\ ~last.fault /\ Get(last.arg, "email") = "a@b"
    /\ \E n \in Range(last.ret) : IsEmailOnly(n) /\ n.target.email = "A@B"

\* the request is a POST with a title and a local path that names no one: no
\* notify target, and no email in the person fields
IsUntargetedRequest(req) ==
    /\ req.method = "POST" /\ req.url = "/api/documents"
    /\ Truthy(Get(req.body, "localPath")) /\ Truthy(Get(req.body, "Title"))
    /\ ~Truthy(Get(req.body, "notifyEmail")) /\ ~Truthy(Get(req.body, "notifyAadObjectId"))
    /\ \A k \in {"ResponsiblePerson", "ModifiedBy", "CreatedBy", "OriginalCreator"} :
          tryExtractEmail(Get(req.body, k)) = UNDEF

IsGreetingContext(ctx) == ToLowerCase(Trim(ctx.activity.text)) \in Greetings

\* C4: end to end. After an injection with a title and a local path and no
\* notify target, a record with state pendingApproval and a generated id
\* exists and a notification for it is queued; and the next greeting, from
\* any user, drains that notification and sends it to that user as a
\* new-document card.
C4_InjectThenGreetingDelivers ==
    [][ /\ ( last'.op = "inject" /\ last'.ret.status = 200 /\ IsUntargetedRequest(last'.arg) )
          => /\ DocIdNumber(last'.ret.doc.id) > 0
             /\ \E d \in Range(readDocumentsFile(docFiles'["cwd"])) :
                   d.id = last'.ret.doc.id /\ d.state = "pendingApproval"
             /\ \E n \in Range(notifFile'.list) : n.doc.id = last'.ret.doc.id
        /\ ( /\ last.op = "inject" /\ last.ret.status = 200 /\ IsUntargetedRequest(last.arg)
             /\ last'.op = "message" /\ IsGreetingContext(last'.arg) /\ ~last'.fault )
          => /\ NewDocumentCard(last.ret.doc) \in Range(last'.ret.sent)
             /\ \A n \in Range(notifFile'.list) : n.doc.id # last.ret.doc.id ]_vars

\* C5: a drain removes from the persisted queue exactly the entries it
\* returns: the queue afterwards is the entries that do not match the
\* requester, in their order, and with the returned ones it makes up the
\* queue before.
C5_DrainRemovesExactlyReturned ==
    [][ (last'.op = "drain" /\ ~last'.fault /\ notifFile.kind = "list") =>
          /\ notifFile'.kind = "list"
          /\ IsSubSeq(notifFile'.list, notifFile.list)
          /\ IsSubSeq(last'.ret, notifFile.list)
          /\ Len(notifFile'.list) + Len(last'.ret) = Len(notifFile.list)
          /\ \A n \in Range(notifFile.list) :
                IF matchesTarget(n, last'.arg)
                THEN n \in Range(last'.ret) /\ n \notin Range(notifFile'.list)
                ELSE n \in Range(notifFile'.list) /\ n \notin Range(last'.ret) ]_vars

\* C5 witness: a drain returned one entry and left another in the queue
C5_Witness ==
    /\ last.op = "drain" /\ ~last.fault
    /\ last.ret # <<>>
    /\ notifFile.kind = "list" /\ notifFile.list # <<>>

\* the ids of the records of a collection
IdsOf(docs) == {Get(docs[i], "id") : i \in 1..Len(docs)}

\* the largest number among the ids of the form DOC-<digits>, 0 if there is none
MaxIdOf(docs) ==
    LET nums == {DocIdNumber(id) : id \in IdsOf(docs)} \ {-1}
    IN  IF nums = {} THEN 0 ELSE MaxOf(nums)

\* DOC- followed by n zero-padded to three digits
DocId(n) ==
    IF n < 10 THEN "DOC-00" \o ToString(n)
    ELSE IF n < 100 THEN "DOC-0" \o ToString(n)
    ELSE "DOC-" \o ToString(n)

\* C6: addDocument is id-monotonic. The id it assigns is DOC- and one more
\* than the largest DOC-<digits> number of the collection (listAll's), so it
\* is the id of no record already there; on a collection that N-1 calls built
\* from nothing it is DOC-00N.
C6_IdMonotonic ==
    [][ (last'.op = "add" /\ ~last'.fault) =>
          LET before == getAllDocuments(docFiles) IN
          /\ last'.ret.id = DocId(MaxIdOf(before) + 1)
          /\ last'.ret.id \notin IdsOf(before)
          /\ (\A i \in 1..Len(before) : before[i].id = DocId(i)) =>
                last'.ret.id = DocId(Len(before) + 1) ]_vars

\* C7: addDocument only appends. Every record listAll returned before the
\* call is returned after it, and listAll then holds one record more, the
\* new one, with state pendingApproval.
C7_AddOnlyAppends ==
    [][ (last'.op = "add" /\ ~last'.fault) =>
          LET before == getAllDocuments(docFiles)
              after == getAllDocuments(docFiles')
          IN
          /\ Len(after) = Len(before) + 1
          /\ \A i \in 1..Len(before) : after[i] = before[i]
          /\ after[Len(after)].id = last'.ret.id
          /\ after[Len(after)].state = "pendingApproval" ]_vars

\* the collection has a record with this id
IsKnownId(files, id) == Truthy(id) /\ id \in IdsOf(getAllDocuments(files))

\* C8: setState is idempotent. After setState(id, s) returned true, the same
\* call made again, its write succeeding, returns true and leaves every
\* persisted file as the first call left it.
C8_SetStateIdempotent ==
    [][ ( /\ last.op = "setState" /\ last.ret.value
          /\ last'.op = "setState" /\ last'.arg = last.arg /\ ~last'.fault )
        => /\ last'.ret.value
           /\ docFiles' = docFiles ]_vars

\* C8 witness: the second of two equal calls on an existing record returned true
C8_Witness ==
    /\ last.op = "setState" /\ last.rep /\ last.ret.value
    /\ last.arg.state = "approved"
    /\ \E d \in Range(getAllDocuments(docFiles)) : d.id = last.arg.id /\ d.state = "approved"

\* C9: setState on an unknown or empty id returns false and leaves every
\* persisted file as it was; a failed write makes it return false. It always
\* returns a boolean.
C9_SetStateUnknownId ==
    [][ last'.op = "setState" =>
          /\ last'.ret.value \in BOOLEAN
          /\ ~IsKnownId(docFiles, last'.arg.id) => (~last'.ret.value /\ docFiles' = docFiles)
          /\ last'.fault => ~last'.ret.value ]_vars

\* C9 witness: an unknown id was asked for while the collection holds records
C9_Witness ==
    /\ last.op = "setState" /\ last.arg.id = "DOC-404" /\ ~last.ret.value
    /\ getAllDocuments(docFiles) # <<>>

\* C9, the other case: a write failed on a known id
C9_WitnessWriteFailed ==
    last.op = "setState" /\ last.fault /\ ~last.ret.value

\* the file with the state of its record number idx replaced
WithState(f, idx, state) ==
    LET key == IF "documents" \in DOMAIN f.obj THEN "documents" ELSE "pending"
    IN  DocsJson([f.obj EXCEPT ![key] = [@ EXCEPT ![idx] = Spread(@, [state |-> state])]])

\* C10: a successful setState replaces only the state field of the record
\* with that id: the persisted files are as before but for that field.
C10_OnlyStateReplaced ==
    [][ (last'.op = "setState" /\ last'.ret.value) =>
          LET p == resolveDocumentsFilePath(docFiles)
              idx == FindIndex(getAllDocuments(docFiles), last'.arg.id)
          IN  docFiles' = [docFiles EXCEPT ![p] = WithState(docFiles[p], idx, last'.arg.state)] ]_vars

\* a state that reads as pending approval: the state itself, its legacy
\* spelling, or none
IsPendingEquivalent(d) ==
    "state" \notin DOMAIN d \/ d.state \in {UNDEF, "pendingApproval", "pendigApprovel"}

\* C11: listPending returns exactly the records of listAll whose state is
\* pendingApproval, its legacy misspelled synonym, or absent, in listAll's
\* order; an approved or rejected record is never in it, and every
\* pendingApproval-equivalent record is.
C11_ListPendingExact ==
    LET all == getAllDocuments(docFiles)
        pending == getPendingApprovalDocuments(docFiles)
    IN  /\ IsSubSeq(pending, all)
        /\ Len(pending) = Cardinality({i \in 1..Len(all) : IsPendingEquivalent(all[i])})
        /\ \A d \in Range(pending) : IsPendingEquivalent(d) /\ d.state \notin {"approved", "rejected"}
        /\ \A d \in Range(all) : IsPendingEquivalent(d) => d \in Range(pending)

\* C11 witness: listAll holds an approved record that listPending leaves out
\* and a pending one that it returns
C11_Witness ==
    LET all == getAllDocuments(docFiles)
        pending == getPendingApprovalDocuments(docFiles)
    IN  /\ \E d \in Range(all) : d.state = "approved" /\ d \notin Range(pending)
        /\ \E d \in Range(pending) : d.state = "pendingApproval"

\* C11, the legacy spelling: a record stored as pendigApprovel is returned
C11_WitnessLegacy ==
    \E d \in Range(getPendingApprovalDocuments(docFiles)) : d.state = "pendigApprovel"

\* the conversation an index holds under key k; UNDEF when it holds none
ConversationAt(index, k) == IF k \in DOMAIN index THEN Get(index[k], "conversationId") ELSE UNDEF

\* the conversation stored for the target's identity, and for its email
ByIdentity(reg, target) ==
    IF Truthy(Get(target, "aadObjectId"))
    THEN ConversationAt(reg.byAadObjectId, ToLowerCase(target.aadObjectId)) ELSE UNDEF
ByEmail(reg, target) ==
    IF Truthy(Get(target, "email"))
    THEN ConversationAt(reg.byEmail, ToLowerCase(target.email)) ELSE UNDEF

\* C12: findConversationFor returns the conversation stored under the
\* identity key whenever that key has one, even when the email key points to
\* a different reference; the email key decides only when the identity key
\* yields no conversation; null is returned when neither hits.
C12_FindPrefersIdentity ==
    [][ last'.op = "find" =>
          LET byId == ByIdentity(registry, last'.arg)
              byMail == ByEmail(registry, last'.arg)
          IN  /\ Truthy(byId) => last'.ret.value = byId
              /\ (~Truthy(byId) /\ Truthy(byMail)) => last'.ret.value = byMail
              /\ (~Truthy(byId) /\ ~Truthy(byMail)) => last'.ret.value = UNDEF ]_vars

\* C12 witness: both keys hit, they name different conversations, and the
\* identity's was returned
C12_Witness ==
    /\ last.op = "find"
    /\ Truthy(ByIdentity(registry, last.arg)) /\ Truthy(ByEmail(registry, last.arg))
    /\ ByIdentity(registry, last.arg) # ByEmail(registry, last.arg)
    /\ last.ret.value = ByIdentity(registry, last.arg)

\* C12, the fallback: only the email key hit
C12_WitnessEmail ==
    /\ last.op = "find"
    /\ ~Truthy(ByIdentity(registry, last.arg))
    /\ Truthy(last.ret.value) /\ last.ret.value = ByEmail(registry, last.arg)

\* the keys an upsert names
IdentityKeys(input) ==
    IF Truthy(Get(input, "aadObjectId")) THEN {ToLowerCase(input.aadObjectId)} ELSE {}
EmailKeys(input) ==
    IF Truthy(Get(input, "email")) THEN {ToLowerCase(input.email)} ELSE {}

\* ref holds what the upsert of input at time t says, and nothing else
IsSnapshotOf(ref, input, t) ==
    /\ DOMAIN ref \subseteq {"conversationId", "serviceUrl", "updatedAt", "userLabel", "email"}
    /\ Get(ref, "conversationId") = input.conversationId
    /\ Get(ref, "serviceUrl") = Get(input, "serviceUrl")
    /\ Get(ref, "userLabel") = Get(input, "userLabel")
    /\ Get(ref, "email") = (IF Truthy(Get(input, "email")) THEN ToLowerCase(input.email) ELSE UNDEF)
    /\ Get(ref, "updatedAt") = "T" \o ToString(t)

\* C13: an upsert carrying both an identity and an email makes both indices
\* hold the same snapshot; an upsert replaces the snapshot under each key it
\* names in full, no field of the previous one surviving; entries under keys
\* it does not name are unchanged.
C13_UpsertReplacesSnapshot ==
    [][ (last'.op = "upsert" /\ ~last'.fault) =>
          LET input == last'.arg
              ids == IdentityKeys(input)
              mails == EmailKeys(input)
          IN  /\ DOMAIN registry'.byAadObjectId = DOMAIN registry.byAadObjectId \cup ids
              /\ DOMAIN registry'.byEmail = DOMAIN registry.byEmail \cup mails
              /\ \A k \in ids : IsSnapshotOf(registry'.byAadObjectId[k], input, now')
              /\ \A k \in mails : IsSnapshotOf(registry'.byEmail[k], input, now')
              /\ \A k \in ids, m \in mails : registry'.byAadObjectId[k] = registry'.byEmail[m]
              /\ \A k \in DOMAIN registry.byAadObjectId \ ids :
                    registry'.byAadObjectId[k] = registry.byAadObjectId[k]
              /\ \A k \in DOMAIN registry.byEmail \ mails :
                    registry'.byEmail[k] = registry.byEmail[k] ]_vars

\* C13 witness: an upsert with an identity and an email replaced a snapshot
\* that had a user label by one that has none, while another identity's
\* entry is in the index
C13_Witness ==
    /\ last.op = "upsert" /\ ~last.fault
    /\ IdentityKeys(last.arg) # {} /\ EmailKeys(last.arg) # {}
    /\ last.prevRet # <<>> /\ "userLabel" \in DOMAIN last.prevRet[1]
    /\ \A k \in IdentityKeys(last.arg) : "userLabel" \notin DOMAIN registry.byAadObjectId[k]
    /\ DOMAIN registry.byAadObjectId \ IdentityKeys(last.arg) # {}

\* a key that is empty or whitespace only
IsBlank(k) == Trim(k) = ""

\* C14: keys are compared case-insensitively, and an empty or
\* whitespace-only key is never stored by upsert nor looked up: no index
\* holds a blank key, a lookup for a blank identity finds nothing, and a
\* reference stored under identity K is found by a lookup for any case
\* variant of K.
C14_KeysNormalised ==
    /\ \A k \in DOMAIN registry.byAadObjectId \cup DOMAIN registry.byEmail : ~IsBlank(k)
    /\ last.op = "get" =>
          LET k == ToLowerCase(Trim(last.arg.aadObjectId)) IN
          last.ret = (IF ~IsBlank(k) /\ k \in DOMAIN registry.byAadObjectId
                      THEN registry.byAadObjectId[k] ELSE EmptyObj)
    /\ (last.op = "find" /\ "aadObjectId" \in DOMAIN last.arg) =>
          IF IsBlank(last.arg.aadObjectId)
          THEN last.ret.value = ByEmail(registry, last.arg)
          ELSE Truthy(ByIdentity(registry, last.arg)) => last.ret.value = ByIdentity(registry, last.arg)

IsInjection(req) == req.method = "POST" /\ req.url = "/api/documents"

\* the body lacks the local content path or the title
LacksRequired(body) ==
    \/ "localPath" \notin DOMAIN body \/ body.localPath = ""
    \/ "Title" \notin DOMAIN body \/ body.Title = ""

\* C15: an injection request missing the local content path or the title is
\* answered with a 4xx status and has no effect: no record is added, no
\* notification is enqueued and no proactive message is sent.
C15_InvalidInjectionNoEffect ==
    [][ (last'.op = "inject" /\ IsInjection(last'.arg) /\ LacksRequired(last'.arg.body)) =>
          /\ last'.ret.status \in 400..499
          /\ docFiles' = docFiles
          /\ notifFile' = notifFile
          /\ last'.ret.sent = <<>>
          /\ ~last'.ret.notified ]_vars

\* C15 witness: a request without a local path was refused while a record, a
\* queued notification and a known conversation exist
C15_Witness ==
    /\ last.op = "inject" /\ IsInjection(last.arg) /\ "localPath" \notin DOMAIN last.arg.body
    /\ last.ret.status = 400
    /\ readDocumentsFile(docFiles["cwd"]) # <<>>
    /\ notifFile.list # <<>>
    /\ DOMAIN registry.byEmail # {}

\* the conversation the registry holds for the target of an injection
ConversationForInjection(reg, body, doc) ==
    LET target == [aadObjectId |-> Get(body, "notifyAadObjectId"), email |-> TargetEmail(body, doc)] IN
    IF Truthy(ByIdentity(reg, target)) THEN ByIdentity(reg, target) ELSE ByEmail(reg, target)

\* C16: a valid injection, its writes succeeding, adds the record and
\* enqueues a notification for it and answers 200; notified is true exactly
\* when the registry holds a conversation for the target identity or email
\* and the proactive send to it succeeded; with no conversation known or the
\* send failing the response still succeeds, with notified false.
C16_ValidInjection ==
    [][ ( /\ last'.op = "inject" /\ IsInjection(last'.arg) /\ ~LacksRequired(last'.arg.body)
          /\ last'.env.at \notin {"add", "enqueue"} ) =>
          LET doc == last'.ret.doc
              conversation == ConversationForInjection(registry, last'.arg.body, doc)
              before == readDocumentsFile(docFiles["cwd"])
              after == readDocumentsFile(docFiles'["cwd"])
          IN  /\ last'.ret.status = 200
              /\ Len(after) = Len(before) + 1
              /\ after[Len(after)] = JsonObj(doc)
              /\ doc.state = "pendingApproval"
              /\ Len(notifFile'.list) = Min(NotificationCap, Len(notifFile.list) + 1)
              /\ notifFile'.list[1].doc.id = doc.id
              /\ \A i \in 2..Len(notifFile'.list) : notifFile'.list[i] = notifFile.list[i - 1]
              /\ last'.ret.notified <=> (Truthy(conversation) /\ last'.env.at # "send")
              /\ last'.ret.sent = IF last'.ret.notified
                                  THEN <<[to |-> conversation, activity |-> NewDocumentCard(doc)]>>
                                  ELSE <<>> ]_vars

\* C16 witness: an injection found a conversation, sent the card and
\* reported notified = true
C16_Witness ==
    /\ last.op = "inject" /\ last.ret.status = 200
    /\ last.ret.notified /\ Len(last.ret.sent) = 1

\* C16, the failed send: a conversation was known, the send threw, and the
\* response is 200 with notified = false
C16_WitnessSendFailed ==
    /\ last.op = "inject" /\ last.ret.status = 200
    /\ last.env.at = "send" /\ ~last.ret.notified


\* ---- claims about the loading placeholder

Finished(inv) == inv.pc \in {"done", "threw"}

\* the position of the first ev event of a trace, 0 when there is none
FirstAt(trace, ev) ==
    IF \E i \in 1..Len(trace) : trace[i].ev = ev
    THEN CHOOSE i \in 1..Len(trace) : trace[i].ev = ev /\ \A j \in 1..(i - 1) : trace[j].ev # ev
    ELSE 0

IsGatewayCall(e) == e.ev \in {"update", "delete", "send"}

\* the gateway calls made before the work started
LoadingEvents(inv) ==
    LET w == FirstAt(inv.trace, "work")
    IN  SelectSeq(SubSeq(inv.trace, 1, IF w = 0 THEN Len(inv.trace) ELSE w - 1), IsGatewayCall)

\* the gateway calls made after the work ended
FinalEvents(inv) ==
    LET w == FirstAt(inv.trace, "work")
    IN  IF w = 0 THEN <<>> ELSE SelectSeq(SubSeq(inv.trace, w + 1, Len(inv.trace)), IsGatewayCall)

WorkThrew(inv) == \E i \in 1..Len(inv.trace) : inv.trace[i].ev = "work" /\ inv.trace[i].res = "threw"

\* C17: once an invocation of the loading-placeholder handler has finished,
\* by returning or by an escaping exception, whether the work returned or
\* threw and whatever the update, delete and send of the loading card did,
\* its typing timer is no longer active.
C17_TimerCancelledOnExit == Finished(loading) => ~loading.timer

\* a finished invocation whose work threw after the loading update and the
\* delete of the triggering card failed and the loading send was rejected,
\* the timer having fired in between
C17_Witness ==
    /\ Finished(loading)
    /\ WorkThrew(loading)
    /\ loading.typing = MaxTyping
    /\ LET L == LoadingEvents(loading)
       IN  Len(L) = 3 /\ \A i \in 1..3 : L[i].res = "fail"

\* a finished invocation left by the rejection of the final send
C17_WitnessEscaped == loading.pc = "threw" /\ loading.typing = MaxTyping

\* C18: the final card is first tried as an update of the placeholder; it
\* is sent as a new message only when there is no placeholder or that update
\* was unavailable or failed; the placeholder is deleted, best effort, only
\* after that send succeeded; the final card is never both applied by an
\* update and sent; and a failing delete leaves the invocation finished
\* normally with the final card sent.
C18_ThreeTierFallback ==
    LET F == FinalEvents(loading)
        p == loading.placeholderId
        card == loading.finalActivity
    IN  /\ \A i \in 1..Len(F) :
              /\ F[i].ev = "update" =>
                    i = 1 /\ Truthy(p) /\ F[i].id = p /\ F[i].activity = card
              /\ F[i].ev = "send" =>
                    /\ F[i].activity = card
                    /\ IF Truthy(p)
                       THEN i = 2 /\ F[1].ev = "update" /\ F[1].res \in {"unavailable", "fail"}
                       ELSE i = 1
              /\ F[i].ev = "delete" =>
                    /\ i = 3 /\ F[2].ev = "send" /\ F[2].res = "ok"
                    /\ Truthy(p) /\ F[i].id = p
                    /\ loading.pc = "done" /\ loading.escaped = "none"
        /\ ~ ( /\ \E i \in 1..Len(F) : F[i].ev = "update" /\ F[i].res = "ok"
               /\ \E i \in 1..Len(F) : F[i].ev = "send" )
        /\ loading.pc = "done" =>
              /\ \E i \in 1..Len(F) : F[i].ev \in {"update", "send"} /\ F[i].res = "ok"
              /\ (Truthy(p) /\ \E i \in 1..Len(F) : F[i].ev = "send") =>
                    \E i \in 1..Len(F) : F[i].ev = "delete"

\* the third tier: the update of the placeholder failed, the final card was
\* sent, and the delete of the stale placeholder failed
C18_Witness ==
    LET F == FinalEvents(loading)
    IN  /\ loading.pc = "done"
        /\ Len(F) = 3
        /\ F[1].ev = "update" /\ F[1].res = "fail"
        /\ F[2].ev = "send" /\ F[2].res = "ok"
        /\ F[3].ev = "delete" /\ F[3].res = "fail"

\* the first tier: the final card replaced the placeholder in place
C18_WitnessUpdated ==
    LET F == FinalEvents(loading)
    IN  loading.pc = "done" /\ Len(F) = 1 /\ F[1].ev = "update" /\ F[1].res = "ok"

\* the identifier a resolved send carries: id, else activityId, else none
ReturnedIdentifier(sent) ==
    IF Truthy(Get(sent, "id")) THEN sent.id
    ELSE IF Truthy(Get(sent, "activityId")) THEN sent.activityId
    ELSE UNDEF

\* C19: the typing signal is the first thing an invocation does; the
\* triggering card, when there is one, is then updated to the loading card,
\* and only when that update was unavailable or failed is the triggering card
\* deleted and a loading card sent; the placeholder is the triggering card
\* after a successful update and otherwise the identifier returned by the
\* loading send (none if it was rejected); the work starts after the
\* placeholder attempt; and every call of the final replacement comes after
\* the typing signal was stopped.
C19_ProtocolOrder ==
    LET T == loading.trace
        L == LoadingEvents(loading)
        w == FirstAt(T, "work")
        target == loading.targetId
    IN  /\ loading.pc # "idle" => T # <<>> /\ T[1].ev = "typing"
        /\ \A i \in 1..Len(L) :
              /\ L[i].ev = "update" =>
                    i = 1 /\ Truthy(target) /\ L[i].id = target /\ L[i].activity = SubmitLoadingActivity
              /\ L[i].ev = "delete" =>
                    i = 2 /\ L[1].ev = "update" /\ L[1].res \in {"unavailable", "fail"} /\ L[i].id = target
              /\ L[i].ev = "send" =>
                    /\ L[i].activity = SubmitLoadingActivity
                    /\ IF Truthy(target)
                       THEN i = 3 /\ L[2].ev = "delete" /\ L[1].res \in {"unavailable", "fail"}
                       ELSE i = 1
        /\ w # 0 =>
              /\ L # <<>>
              /\ LET e == L[Len(L)]
                 IN  \/ e.ev = "update" /\ e.res = "ok" /\ loading.placeholderId = target
                     \/ /\ e.ev = "send"
                        /\ loading.placeholderId =
                              IF e.res = "ok" THEN ReturnedIdentifier(e.ret) ELSE UNDEF
        /\ \A i \in 1..Len(T) :
              (w # 0 /\ i > w /\ IsGatewayCall(T[i])) =>
                  /\ \E j \in (w + 1)..(i - 1) : T[j].ev = "stopTyping"
                  /\ ~loading.timer

\* the work has ended after a failed update, a delete and a loading send
\* that returned an identifier, which is the placeholder
C19_Witness ==
    LET L == LoadingEvents(loading)
    IN  /\ FirstAt(loading.trace, "stopTyping") # 0
        /\ Len(L) = 3
        /\ L[1].res = "fail"
        /\ L[3].res = "ok"
        /\ loading.placeholderId = "sent-2"
        /\ loading.targetId = "card-1"

\* the triggering card became the placeholder and the final replacement began
C19_WitnessUpdated ==
    /\ LoadingEvents(loading) # <<>>
    /\ LoadingEvents(loading)[1].res = "ok"
    /\ loading.placeholderId = "card-1"
    /\ FinalEvents(loading) # <<>>

\* C20: an exception thrown by the work never leaves the invocation; the
\* step that ends the work makes the "Something went wrong" card the final
\* activity and enters the placeholder replacement where a returned result
\* enters it, and every update and send of the replacement carries that card.
C20_WorkErrorBecomesCard ==
    [][ /\ loading'.escaped # "work"
        /\ (loading.pc = "work" /\ loading'.pc # "work" /\ WorkThrew(loading')) =>
              LET thrown == loading'.trace[FirstAt(loading'.trace, "work")].ret
                  final == loading'.finalActivity
              IN  /\ final.type = "message"
                  /\ final.card = "info"
                  /\ final.title = "Something went wrong"
                  /\ final.message = IF "message" \in DOMAIN thrown THEN thrown.message
                                     ELSE "[object Object]"
                  /\ loading'.pc = (IF Truthy(loading.placeholderId) THEN "updateFinal" ELSE "sendFinal")
                  /\ ~Finished(loading')
        /\ (WorkThrew(loading') /\ Len(FinalEvents(loading')) > Len(FinalEvents(loading))) =>
              LET F == FinalEvents(loading')
              IN  /\ loading'.finalActivity = loading.finalActivity
                  /\ F[Len(F)].ev \in {"update", "send"} => F[Len(F)].activity = loading.finalActivity
                  /\ loading.finalActivity.card = "info"
      ]_vars

\* the work threw and the error card replaced the placeholder in place
C20_Witness ==
    LET F == FinalEvents(loading)
    IN  /\ WorkThrew(loading)
        /\ loading.pc = "done"
        /\ F # <<>>
        /\ F[1].ev = "update" /\ F[1].res = "ok"
        /\ F[1].activity = InfoActivity("Something went wrong", "ENOENT")

\* the work threw and the error card was sent as a new message
C20_WitnessSent ==
    LET F == FinalEvents(loading)
    IN  /\ WorkThrew(loading)
        /\ loading.pc = "done"
        /\ Len(F) = 1
        /\ F[1].ev = "send" /\ F[1].res = "ok"
        /\ F[1].activity.title = "Something went wrong"

\* the final card of the invocation has reached the chat, by update or by send
FinalCardDelivered(inv) ==
    \E i \in 1..Len(FinalEvents(inv)) :
        FinalEvents(inv)[i].ev \in {"update", "send"} /\ FinalEvents(inv)[i].res = "ok"

\* C21: once the work of an invocation has ended, by returning or by
\* throwing, the invocation eventually has its final card delivered, by an
\* update of the placeholder or by a new message.
C21_FinalCardEventually ==
    [](loading.pc \in {"updateFinal", "sendFinal"} => <>FinalCardDelivered(loading))

\* ---- claims about the dispatch of inbound events

IsEvent(l) == l.op = "event"

EventText(a) == Trim(Nullish(Get(a, "text"), ""))

IsGreetingText(a) == ToLowerCase(EventText(a)) \in {"hi", "hello", "hey", "hi!", "hello!", "hey!"}

IsChangeCommand(a) == ToLowerCase(EventText(a)) \in {"change", "change x"}

CarriesFile(a) ==
    /\ "attachments" \in DOMAIN a
    /\ \E i \in 1..Len(a.attachments) : Truthy(Get(a.attachments[i], "name"))

SubmittedAction(a) == IF "value" \in DOMAIN a THEN Get(a.value, "action") ELSE UNDEF

IsKnownAction(a) == SubmittedAction(a) \in Range(SubmitActions)

CardOf(m) == Get(m, "card")

\* the kinds of reply the text classification gives
IsTextPathReply(m) ==
    \/ CardOf(m) \in {"pendingApprovals", "documentInfo", "userChange"}
    \/ ("text" \in DOMAIN m /\ m.text \in {"you said: " \o t : t \in {"", "Hello!", "Change x", "what"}})

C22_WitnessFile ==
    /\ IsEvent(last)
    /\ CarriesFile(last.arg.activity)
    /\ IsChangeCommand(last.arg.activity)
    /\ last.ret.sent = <<DocumentInfoCard("Spec.PDF")>>

\* a card submit that carried a greeting was answered by its own handler
C22_WitnessSubmit ==
    /\ IsEvent(last)
    /\ IsKnownAction(last.arg.activity)
    /\ IsGreetingText(last.arg.activity)
    /\ last.ret.sent = <<[text |-> "Acknowledged. I'll track this change."]>>

\* C23: the welcomed flag of a conversation is set by the first event of the
\* conversation that reaches the text classification, whether or not its
\* reply could be sent, by no other event, and it is never cleared; once it
\* is set, a text that is no greeting does not get the pending-approvals
\* summary card, and a greeting gets it.
C23_WelcomeOneShot ==
    [][ /\ welcomed \subseteq welcomed'
        /\ IsEvent(last') =>
              LET a == last'.arg.activity
                  c == a.conversation.id
                  sent == last'.ret.sent
              IN  /\ welcomed' = IF IsKnownAction(a) THEN welcomed ELSE welcomed \cup {c}
                  /\ (c \in welcomed /\ ~IsKnownAction(a) /\ ~IsGreetingText(a)) =>
                        \A i \in 1..Len(sent) : CardOf(sent[i]) # "pendingApprovals"
                  /\ (c \in welcomed /\ ~IsKnownAction(a) /\ IsGreetingText(a) /\ last'.env.failAt = 0) =>
                        sent # <<>> /\ CardOf(sent[1]) = "pendingApprovals"
      ]_vars

\* a greeting in a conversation that was welcomed before got the summary card
C23_Witness ==
    /\ IsEvent(last)
    /\ IsGreetingText(last.arg.activity)
    /\ ~IsKnownAction(last.arg.activity)
    /\ last.ret.sent # <<>>
    /\ CardOf(last.ret.sent[1]) = "pendingApprovals"
    /\ last.prevRet.welcomed

\* a text that is no greeting, in a welcomed conversation, was echoed
C23_WitnessEcho ==
    /\ IsEvent(last)
    /\ last.ret.sent = <<[text |-> "you said: what"]>>
    /\ last.prevRet.welcomed

\* the conversation the event's sender is known under after the upsert
ConversationKnownFor(reg, from) ==
    LET table == IF "aadObjectId" \in DOMAIN from THEN reg.byAadObjectId ELSE reg.byEmail
        key == IF "aadObjectId" \in DOMAIN from THEN ToLowerCase(Trim(from.aadObjectId))
               ELSE ToLowerCase(Trim(from.userPrincipalName))
    IN  IF key \in DOMAIN table THEN table[key].conversationId ELSE UNDEF

\* the event was replied to: a message was sent, or a final card delivered
Replied(ret) == ret.sent # <<>> \/ FinalCardDelivered(ret.inv)

\* C24: every event that carries a conversation id, card submits included,
\* leaves the registry holding that conversation under the sender's identity
\* or email when the registry write succeeds, even if the handler's first
\* send throws; when the write fails the registry is as before and the event
\* is still replied to.
C24_UpsertBeforeReply ==
    [][ IsEvent(last') =>
          LET a == last'.arg.activity
          IN  /\ last'.env.reg = "ok" =>
                    /\ ConversationKnownFor(registry', a.from) = a.conversation.id
                    /\ registry' = upsertConversationRef(registry, UpsertInput(last'.arg), now', "ok")
              /\ last'.env.reg # "ok" =>
                    /\ registry' = registry
                    /\ Replied(last'.ret)
                    /\ ~last'.fault
      ]_vars

\* a card submit that found the registry empty
C24_Witness ==
    /\ IsEvent(last)
    /\ IsKnownAction(last.arg.activity)
    /\ last.env.reg = "ok"
    /\ ~last.prevRet.known
    /\ ConversationKnownFor(registry, last.arg.activity.from) = "c1"

\* the registry write failed and the event was replied to
C24_WitnessWriteFailed ==
    /\ IsEvent(last)
    /\ last.env.reg # "ok"
    /\ Replied(last.ret)

\* an event whose first send threw, its conversation registered all the same
C24_WitnessSendFailed ==
    /\ IsEvent(last)
    /\ last.fault
    /\ last.env.failAt = 1
    /\ ~last.prevRet.known
    /\ ConversationKnownFor(registry, last.arg.activity.from) = last.arg.activity.conversation.id

IsDocumentAction(a) ==
    SubmittedAction(a) \in {"select_pending_doc", "ask_doc_question", "approve_doc", "reject_doc"}

\* the document the submit names is in no documents file
NamesUnknownDocument(a, files) ==
    \A i \in 1..Len(getAllDocuments(files)) :
        getAllDocuments(files)[i].id # Trim(Nullish(Get(a.value, "docId"), ""))

\* C27: a document action that names an unknown document is answered by
\* one plain-text message; no loading placeholder is shown, the model is not
\* called and the documents files are unchanged.
C27_UnknownDocumentPlainText ==
    [][ ( /\ IsEvent(last')
          /\ IsDocumentAction(last'.arg.activity)
          /\ NamesUnknownDocument(last'.arg.activity, docFiles)
          /\ last'.env.failAt = 0 ) =>
          /\ Len(last'.ret.sent) = 1
          /\ "text" \in DOMAIN last'.ret.sent[1]
          /\ last'.ret.inv = NoInvocation
          /\ last'.ret.llm = <<0>>
          /\ docFiles' = docFiles
          /\ ~last'.fault
      ]_vars

\* ---- claims about the detached email lookup

IsIdentityOnly(from) == "aadObjectId" \in DOMAIN from /\ "userPrincipalName" \notin DOMAIN from

\* every email the registry holds after, it held before under the same key
NoNewEmail(before, after) ==
    /\ \A k \in DOMAIN after.byAadObjectId :
          "email" \in DOMAIN after.byAadObjectId[k] =>
              k \in DOMAIN before.byAadObjectId /\ after.byAadObjectId[k] = before.byAadObjectId[k]
    /\ \A k \in DOMAIN after.byEmail :
          k \in DOMAIN before.byEmail /\ after.byEmail[k] = before.byEmail[k]

\* C25: a message from a sender known by directory identity only is replied
\* to with its lookup still pending, whatever lookups are pending already,
\* and the handler's own upsert carries no resolved email; a message from a
\* sender with an email starts no lookup; a lookup runs only after a message
\* started it, changes nothing but the registry, and an empty or failed
\* answer changes nothing at all.
C25_LookupDetached ==
    [][ /\ last'.op = "message" =>
              LET from == last'.arg.activity.from IN
              IF IsIdentityOnly(from)
              THEN /\ \E l \in lookups' : l.aadObjectId = Trim(from.aadObjectId)
                   /\ lookups \subseteq lookups'
                   /\ ~last'.fault => last'.ret.sent # <<>>
                   /\ NoNewEmail(registry, registry')
              ELSE lookups' = lookups
        /\ last'.op = "graphLookup" =>
              /\ last'.arg \in lookups
              /\ lookups' = lookups \ {last'.arg}
              /\ UNCHANGED <<notifFile, docFiles, welcomed>>
              /\ last'.ret.email = UNDEF => registry' = registry
              /\ (registry' # registry /\ registry' # EmptyRegistry) =>
                    registry'.byAadObjectId[ToLowerCase(last'.arg.aadObjectId)].email = last'.ret.email
      ]_vars

\* the lookup of an earlier message resolved the sender's email
C25_Witness ==
    /\ last.op = "graphLookup"
    /\ "u1" \in DOMAIN registry.byAadObjectId
    /\ Get(registry.byAadObjectId["u1"], "email") = "a@b"
    /\ "a@b" \in DOMAIN registry.byEmail

\* a message was replied to while its lookup had not run
C25_WitnessPending ==
    /\ last.op = "message"
    /\ IsIdentityOnly(last.arg.activity.from)
    /\ last.ret.sent # <<>>
    /\ lookups # {}

\* a lookup that got no answer left the registry as it was
C25_WitnessFailed ==
    /\ last.op = "graphLookup"
    /\ last.ret.email = UNDEF
    /\ "u1" \in DOMAIN registry.byAadObjectId
    /\ "email" \notin DOMAIN registry.byAadObjectId["u1"]

\* ---- claims about the cap of the notification queue

\* C26: the persisted queue never holds more than 25 entries; an enqueue
\* whose write succeeds puts the new entry at the head and keeps the entries
\* that were there, in their order, as far as the cap allows, dropping the
\* oldest ones whether or not they were ever delivered; a drain never
\* lengthens the queue.
C26_QueueBounded ==
    [][ /\ Len(notifFile'.list) <= 25
        /\ (last'.op = "enqueue" /\ ~last'.fault) =>
              /\ notifFile'.list[1] = last'.ret
              /\ Len(notifFile'.list) = Min(25, Len(notifFile.list) + 1)
              /\ \A i \in 2..Len(notifFile'.list) : notifFile'.list[i] = notifFile.list[i - 1]
        /\ (last'.op = "drain") => IsSubSeq(notifFile'.list, notifFile.list)
      ]_vars

\* an enqueue on a full queue dropped its oldest entry, which was for a user
\* who never asked
C26_Witness ==
    /\ last.op = "enqueue"
    /\ ~last.fault
    /\ Len(last.prevRet) = 25
    /\ last.prevRet[25].target = [aadObjectId |-> "u9"]
    /\ Len(notifFile.list) = 25
    /\ notifFile.list[1] = last.ret
    /\ \A i \in 1..25 : notifFile.list[i] # last.prevRet[25]

\* ---- claims about reads of files that are missing or corrupt

\* no candidate location holds a documents file that can be read and parsed
NoDocumentsFile(files, repoRoot) ==
    \A p \in (IF repoRoot THEN {"cwd", "lib"} ELSE {"cwd", "repo", "lib"}) :
        files[p].kind \in {"missing", "corrupt"}

NoNotificationFile(file) == file.kind \in {"missing", "corrupt"}

\* C28: when no documents file can be read, listAll and listPending return
\* the empty list and getById returns null; when the notification file is
\* missing or corrupt, drainFor returns the empty list and leaves the file
\* alone, the documents API reads an empty collection from a missing or
\* corrupt file, and an enqueue whose write succeeds leaves a queue holding its
\* entry only; none of them raises for the failed read.
C28_ReadsDegrade ==
    [][ /\ (last'.op \in {"listAll", "listPending", "getById"} /\ NoDocumentsFile(docFiles, cwdIsRepoRoot)) =>
              last'.ret = <<>> /\ ~last'.fault
        /\ (last'.op = "readDocumentsFile" /\ docFiles["cwd"].kind \in {"missing", "corrupt"}) =>
              last'.ret = <<>> /\ ~last'.fault
        /\ (last'.op = "drain" /\ NoNotificationFile(notifFile)) =>
              last'.ret = <<>> /\ ~last'.fault /\ notifFile' = notifFile
        /\ (last'.op = "enqueue" /\ NoNotificationFile(notifFile)) =>
              /\ last'.fault => notifFile' # NotifList(<<last'.ret>>)
              /\ ~last'.fault => notifFile' = NotifList(<<last'.ret>>)
              /\ (notifFile'.kind = "list") = ~last'.fault
      ]_vars

\* an enqueue found the notification file corrupt and started a new queue
C28_Witness ==
    /\ last.op = "enqueue"
    /\ ~last.fault
    /\ notifFile = NotifList(<<last.ret>>)
    /\ NoDocumentsFile(docFiles, cwdIsRepoRoot)
    /\ docFiles["cwd"].kind = "corrupt"

\* getById found no documents file it could read
C28_WitnessGetById ==
    /\ last.op = "getById"
    /\ last.arg.id = "doc-999"
    /\ last.ret = <<>>
    /\ docFiles["cwd"].kind = "corrupt"
    /\ NoDocumentsFile(docFiles, cwdIsRepoRoot)

\* a drain found the notification file corrupt
C28_WitnessDrain ==
    /\ last.op = "drain"
    /\ last.ret = <<>>
    /\ notifFile.kind = "corrupt"

\* ---- claims about the filename parser

HasNoBrackets(s) == \A i \in 1..Len(s) : CharAt(s, i) \notin {"(", ")", "[", "]"}

\* the name is "T (C - N - S - R) - 1.ext", alone or after the copy marker,
\* with T a title without brackets, N and S digit strings and R alphanumeric
IsWellFormedName(arg) ==
    /\ arg.parts # <<>>
    /\ arg.filename = StructuredName(arg.parts[1])
    /\ arg.parts[1].title # ""
    /\ trim(arg.parts[1].title) = arg.parts[1].title
    /\ ~HasCopyPrefix(arg.parts[1].title)
    /\ HasNoBrackets(arg.parts[1].title)
    /\ IsAllOf(arg.parts[1].docNo, DigitChars)
    /\ IsAllOf(arg.parts[1].docSheet, DigitChars)
    /\ IsAllOf(arg.parts[1].docRev, AlnumChars)

\* C29: parsing a well-formed structured name "T (C - N - S - R) - 1.ext"
\* returns title T, class C, number N, sheet S, the revision R in upper case,
\* the extension (with its dot) in upper case, and the structured flag set.
C29_StructuredNameRecovered ==
    (last.op = "parse" /\ IsWellFormedName(last.arg)) =>
        /\ Len(last.ret) = 1
        /\ last.ret[1].title = last.arg.parts[1].title
        /\ last.ret[1].docClass = last.arg.parts[1].docClass
        /\ last.ret[1].docNo = last.arg.parts[1].docNo
        /\ last.ret[1].docSheet = last.arg.parts[1].docSheet
        /\ last.ret[1].docRev = toUpperCase(last.arg.parts[1].docRev)
        /\ last.ret[1].fileExtension = "." \o toUpperCase(last.arg.parts[1].ext)
        /\ last.ret[1].isIFSFormat
        /\ last.ret[1].isCopy = (last.arg.parts[1].copy # "")

\* a structured name was parsed whose revision and extension changed case and
\* whose title and class hold hyphens
C29_Witness ==
    /\ last.op = "parse"
    /\ IsWellFormedName(last.arg)
    /\ last.arg.filename = "Q3 - 7 (01-TEST - 007 - 12 - b2) - 1.Pdf"
    /\ last.ret[1].title = "Q3 - 7"
    /\ last.ret[1].docClass = "01-TEST"
    /\ last.ret[1].docRev = "B2"
    /\ last.ret[1].fileExtension = ".PDF"

\* a structured name behind the copy marker was parsed
C29_WitnessCopy ==
    /\ last.op = "parse"
    /\ IsWellFormedName(last.arg)
    /\ last.arg.filename = "Copy of Design Spec (ISU_YES_N - 1028340 - 1 - A1) - 1.docx"
    /\ last.ret[1].title = "Design Spec"
    /\ last.ret[1].isCopy

\* C30: whenever the parser sets the structured flag, the number and the
\* sheet it returns are digit strings and the revision is alphanumeric.
C30_StructuredFieldsWellTyped ==
    (last.op = "parse" /\ last.ret # <<>> /\ last.ret[1].isIFSFormat) =>
        /\ IsAllOf(last.ret[1].docNo, DigitChars)
        /\ IsAllOf(last.ret[1].docSheet, DigitChars)
        /\ IsAllOf(last.ret[1].docRev, AlnumChars)

\* C31: for every string it is given, the empty string included, the parser
\* returns a result and not null.
C31_ParseTotalOnStrings ==
    last.op = "parse" => last.ret # <<>>

\* the bracket groups of the name, as the parser collects them
GroupsOfName(filename) ==
    matchGroups(stripVersion(removeExtension(trim(stripCopyOf(filename)))), 1, "(", ")")
      \o matchGroups(stripVersion(removeExtension(trim(stripCopyOf(filename)))), 1, "[", "]")

\* the name holds a bracket group of at least four tokens whose last three
\* are digits, digits and letters or digits
HasQualifyingGroup(filename) ==
    \E i \in 1..Len(GroupsOfName(filename)) : isIFSMetadataPattern(GroupsOfName(filename)[i].content)

\* C32: a name without a qualifying bracket group is parsed as unstructured,
\* with class, number, sheet and revision all empty.
C32_NoGroupUnstructured ==
    (last.op = "parse" /\ last.ret # <<>> /\ ~HasQualifyingGroup(last.arg.filename)) =>
        /\ ~last.ret[1].isIFSFormat
        /\ last.ret[1].docClass = ""
        /\ last.ret[1].docNo = ""
        /\ last.ret[1].docSheet = ""
        /\ last.ret[1].docRev = ""

\* C33: a new-document card of one injected document reaches a user at most
\* once: when the injection delivered the card to the user's conversation, a
\* message of that conversation handled next does not send the card again.
C33_DeliveredAtMostOnce ==
    [][ ( /\ last.op = "inject" /\ last.ret.status = 200 /\ last.ret.notified
          /\ last'.op = "message"
          /\ Get(last'.arg.activity.conversation, "id") = last.ret.sent[1].to )
          => NewDocumentCard(last.ret.doc) \notin Range(last'.ret.sent) ]_vars

\* the queue entries that match the sender of a message
MatchingSender(file, ctx) ==
    IF file.kind = "list" THEN Matching(file.list, getUserIdentity(ctx)) ELSE <<>>

\* C34: a greeting or first message whose sender matches k >= 2 queue entries
\* removes all k from the queue and sends, after the pending-approvals card,
\* one new-document card, that of the first of them; and the others are not
\* delivered later: a message sends a new-document card only for an entry it
\* drains, and an entry enters the queue only as the entry of the document an
\* injection has just added.
C34_DrainAllSendFirst ==
    [][ /\ ( /\ last'.op = "message" /\ ~last'.fault
             /\ ShowsWelcome(last'.arg, welcomed)
             /\ Len(MatchingSender(notifFile, last'.arg)) >= 2 )
          => /\ last'.ret.notes = MatchingSender(notifFile, last'.arg)
             /\ MatchingSender(notifFile', last'.arg) = <<>>
             /\ Len(last'.ret.sent) = 2
             /\ last'.ret.sent[2] = NewDocumentCard(MatchingSender(notifFile, last'.arg)[1].doc)
        /\ ( last'.op = "message" /\ Len(last'.ret.sent) >= 2 )
          => /\ Len(last'.ret.sent) = 2
             /\ MatchingSender(notifFile, last'.arg) # <<>>
             /\ last'.ret.sent[2] = NewDocumentCard(MatchingSender(notifFile, last'.arg)[1].doc)
        /\ \A n \in Range(notifFile'.list) :
              \/ n \in Range(notifFile.list)
              \/ /\ last'.op = "inject" /\ last'.ret.status = 200
                 /\ n = NotificationEntry(last'.ret.doc, TargetArg(n.target), now') ]_vars

\* C34 witness: a greeting drained two entries and sent one new-document card
C34_Witness ==
    /\ last.op = "message" /\ ~last.fault
    /\ Len(last.ret.notes) = 2
    /\ Len(last.ret.sent) = 2
    /\ last.ret.notes[1].doc.id # last.ret.notes[2].doc.id
    /\ last.ret.sent[2] = NewDocumentCard(last.ret.notes[1].doc)

\* the object carries a directory identity
HasIdentity(o) == Truthy(Get(o, "aadObjectId"))

\* the emails of the two objects are both present and equal up to case
BothEmailsEqual(a, b) ==
    /\ Truthy(Get(a, "email")) /\ Truthy(Get(b, "email"))
    /\ ToLowerCase(a.email) = ToLowerCase(b.email)

\* C35: when the target of an entry and the requester both carry a directory
\* identity, the drain returns the entry exactly when the identities are equal
\* up to case, whatever their emails; the emails decide only when the target
\* or the requester has no identity.
C35_IdentityDecidesAlone ==
    [][ (last'.op = "drain" /\ ~last'.fault /\ notifFile.kind = "list") =>
          \A n \in Range(notifFile.list) : "target" \in DOMAIN n =>
              IF HasIdentity(n.target) /\ HasIdentity(last'.arg)
              THEN (n \in Range(last'.ret)) <=>
                      ToLowerCase(n.target.aadObjectId) = ToLowerCase(last'.arg.aadObjectId)
              ELSE (n \in Range(last'.ret)) <=> BothEmailsEqual(n.target, last'.arg) ]_vars

\* C35 witness: a requester with identity u1 and email c@d drained, and an
\* entry for identity u2 with the same email stayed in the queue
C35_Witness ==
    /\ last.op = "drain" /\ ~last.fault
    /\ last.arg = [aadObjectId |-> "u1", email |-> "c@d"]
    /\ notifFile.kind = "list"
    /\ \E n \in Range(notifFile.list) :
          /\ "target" \in DOMAIN n
          /\ Get(n.target, "aadObjectId") = "u2" /\ Get(n.target, "email") = "c@d"
          /\ n \notin Range(last.ret)

\* C35 witness: a requester with identity U2 and email a@b was returned the
\* entry for identity u2 whose email is c@d
C35_WitnessById ==
    /\ last.op = "drain" /\ ~last.fault
    /\ last.arg = [aadObjectId |-> "U2", email |-> "a@b"]
    /\ \E n \in Range(last.ret) :
          /\ "target" \in DOMAIN n
          /\ Get(n.target, "aadObjectId") = "u2" /\ Get(n.target, "email") = "c@d"

\* the event is the submit of this action for this document, and the write of
\* the documents file did not fail
Decides(call, action, id) ==
    /\ call.op = "event"
    /\ Get(ValueOf(call.arg.activity), "action") = action
    /\ EventDocId(call.arg) = id
    /\ call.env.write = "ok"

\* C36: through the bot's events a record changes state only by an approve
\* submit, to approved, or by a reject submit, to rejected, and each of the
\* two does so from whatever state the record is in; no event makes a record
\* pending again, and no event adds or removes a record.
C36_OnlyApproveAndReject ==
    [][ /\ IdsOf(getAllDocuments(docFiles')) = IdsOf(getAllDocuments(docFiles))
        /\ \A id \in IdsOf(getAllDocuments(docFiles)) :
            /\ StateOfDoc(docFiles', id) # StateOfDoc(docFiles, id) =>
                  \/ Decides(last', "approve_doc", id) /\ StateOfDoc(docFiles', id) = "approved"
                  \/ Decides(last', "reject_doc", id) /\ StateOfDoc(docFiles', id) = "rejected"
            /\ Decides(last', "approve_doc", id) => StateOfDoc(docFiles', id) = "approved"
            /\ Decides(last', "reject_doc", id) => StateOfDoc(docFiles', id) = "rejected"
            /\ id \notin IdsOf(getPendingApprovalDocuments(docFiles)) =>
                  id \notin IdsOf(getPendingApprovalDocuments(docFiles')) ]_vars

\* C36 witness: a reject submit moved an approved record to rejected
C36_Witness ==
    /\ Decides(last, "reject_doc", "DOC-009")
    /\ last.prevRet.state = "approved"
    /\ StateOfDoc(docFiles, "DOC-009") = "rejected"

\* C36 witness: an approve submit moved a rejected record to approved
C36_WitnessReapproved ==
    /\ Decides(last, "approve_doc", "DOC-009")
    /\ last.prevRet.state = "rejected"
    /\ StateOfDoc(docFiles, "DOC-009") = "approved"

\* C36 witness: an approve submit moved a pending record to approved
C36_WitnessFromPending ==
    /\ Decides(last, "approve_doc", "DOC-009")
    /\ last.prevRet.state = "pendingApproval"
    /\ StateOfDoc(docFiles, "DOC-009") = "approved"

\* the email the registry holds under the identity of the sender
StoredEmailOf(reg, ctx) ==
    Get(getConversationRefByAadObjectId(reg, getUserIdentity(ctx).aadObjectId), "email")

\* C37: once the registry holds an email for an identity, stored there by a
\* detached lookup, a later event of that identity that carries no email
\* leaves the stored reference with its email, so that the lookup the event
\* starts returns before it calls the directory service.
C37_StoredEmailKept ==
    [][ ( /\ last'.op = "message" /\ StartsLookup(last'.arg)
          /\ Truthy(StoredEmailOf(registry, last'.arg)) )
          => Truthy(StoredEmailOf(registry', last'.arg)) ]_vars

\* the entry is in the hands of a drain that has read it and will return it
HeldByDrain(n) ==
    \E i \in 1..Len(calls) :
        calls[i].op = "drain" /\ n \in Range(Matching(calls[i].list, calls[i].user))

\* C38a: no entry is returned by a drain after a drain has returned it
C38_ReturnedOnce == ~last.twice

\* C38b: an entry that enqueue has written is in the queue, or was returned,
\* or is about to be returned by a drain that has read it
C38_NoneLost ==
    \A n \in last.enqueued :
        \/ notifFile.kind = "list" /\ n \in Range(notifFile.list)
        \/ n \in last.returned
        \/ HeldByDrain(n)

\* C38: when an enqueue and a drain, or two drains, interleave at their reads
\* and writes, and no two enqueues do, no entry is returned twice, to one
\* requester or to two, and no entry that was enqueued is lost.
C38_InterleavingSafe == ~last.overlapped => (C38_ReturnedOnce /\ C38_NoneLost)

\* C39a: the ids addDocument has returned are distinct and each of them is
\* the id of a record in the file
C39_AddsDistinctAndKept ==
    /\ ~last.dup
    /\ \A id \in last.added : id \in IdsOf(getAllDocuments(docFiles))

\* C39b: the state the last setState of an id has set is the state of its
\* record in the file
C39_StateKept ==
    \A id \in DOMAIN last.decided : StateOfDoc(docFiles, id) = last.decided[id]

\* C39: when two addDocument calls, or an addDocument and a setState,
\* interleave at their reads and writes, and no two setState calls do, the
\* added records have distinct ids and are all in the file, and the state a
\* setState has set is the state its record has in the file.
C39_StoreInterleavingSafe ==
    ~last.overlapped => (C39_AddsDistinctAndKept /\ C39_StateKept)

====
